---------------------------- MODULE Spec2Model ----------------------------
(***************************************************************************)
(* A model of the file organizer's planning and execution core:            *)
(* Condition.matches, Runner.scan_and_plan, Runner.execute and the Mover,  *)
(* Renamer, Tagger and Deduplicator collaborators, over a small file       *)
(* system.  Strings the code takes apart (paths, file names, extensions,   *)
(* tags) are sequences of one-character strings; strings it only compares  *)
(* (rule names, operation kinds, policies) are TLA+ strings.               *)
(***************************************************************************)
EXTENDS Integers, Sequences, FiniteSets, TLC

VARIABLES
    files,       \* the regular files on disk: path -> attributes
    dirs,        \* the directories on disk: a set of paths
    dirRev,      \* the enumeration order of directory entries (a property of the disk)
    is_macos,    \* platform.system() == "Darwin"
    dry_run,     \* Runner.dry_run
    ruleFiles,   \* the rule entries of move/rename/tag/duplicate.yaml
    operations,  \* Runner.operations
    results,     \* Runner.results
    nextId,      \* identity of the next Operation object
    clock,       \* datetime.now()
    last,        \* the call that returned last: "init", "plan" or "execute"
    ret,         \* the list returned by the last execute()
    callNo,      \* number of scan_and_plan()/execute() calls made so far
    calls,       \* every dispatch of an Operation to its collaborator, in order
    lastCalls,   \* the dispatches of the last execute()
    planHist,    \* every scan_and_plan() so far: what it returned and the disk it saw
    dupIn,       \* Deduplicator harness: the file list handed to find_duplicates
    dupOut,      \* Deduplicator harness: what find_duplicates returned
    dupRun,      \* Deduplicator harness: the last handle_duplicates call
    callArgs,    \* a direct call of a function of parser.py or renamer.py: its arguments
    callResult   \* the same call: what it returned or raised

vars == <<files, dirs, dirRev, is_macos, dry_run, ruleFiles, operations, results,
          nextId, clock, last, ret, callNo, calls, lastCalls, planHist,
          dupIn, dupOut, dupRun, callArgs, callResult>>

runnerVars == <<operations, results, nextId, clock, last, ret, callNo, calls,
                lastCalls, planHist>>
dedupVars == <<dupIn, dupOut, dupRun>>
callVars == <<callArgs, callResult>>

---------------------------------------------------------------------------
(* Bounds of the model. *)

\* scan_and_plan()/execute() calls made on one Runner
MaxCalls == 3
\* modification times are 1..MaxMtime
MaxMtime == 3
\* numbers in size strings have 1..MaxDigits digits
MaxDigits == 3
\* file sizes and size bounds of the conditions tried are 0..MaxSize
MaxSize == 2
\* a rule file read on its own has 0..MaxEntries entries
MaxEntries == 3

---------------------------------------------------------------------------
(* Strings. *)

LowerChars == <<"a","b","c","d","e","f","g","h","i","j","k","l","m",
                "n","o","p","q","r","s","t","u","v","w","x","y","z">>
UpperChars == <<"A","B","C","D","E","F","G","H","I","J","K","L","M",
                "N","O","P","Q","R","S","T","U","V","W","X","Y","Z">>
OtherChars == <<"-","(",")","[","]","_",".","/","~"," ",
                "0","1","2","3","4","5","6","7","8","9">>
\* the order directory entries are compared in
Alphabet == OtherChars \o UpperChars \o LowerChars

CharRank(c) == CHOOSE i \in 1..Len(Alphabet) : Alphabet[i] = c

\* str.lower(), one character
LowerChar(c) ==
    IF \E i \in 1..26 : UpperChars[i] = c
    THEN LowerChars[CHOOSE i \in 1..26 : UpperChars[i] = c]
    ELSE c

\* str.lower()
Lower(s) == [i \in 1..Len(s) |-> LowerChar(s[i])]

\* str.startswith(pre)
StartsWith(s, pre) ==
    /\ Len(pre) <= Len(s)
    /\ SubSeq(s, 1, Len(pre)) = pre

\* re.search of a pattern without metacharacters: s contains pat
Contains(s, pat) ==
    \E i \in 0..(Len(s) - Len(pat)) : SubSeq(s, i + 1, i + Len(pat)) = pat

\* str.rfind(c), 0 when c does not occur (positions count from 1)
RFind(s, c) ==
    IF \E i \in 1..Len(s) : s[i] = c
    THEN CHOOSE i \in 1..Len(s) : s[i] = c /\ \A j \in (i+1)..Len(s) : s[j] # c
    ELSE 0

\* str.lstrip(c)
RECURSIVE LStrip(_, _)
LStrip(s, c) == IF s # <<>> /\ Head(s) = c THEN LStrip(Tail(s), c) ELSE s

\* str.rstrip(c)
RECURSIVE RStrip(_, _)
RStrip(s, c) ==
    IF s # <<>> /\ s[Len(s)] = c THEN RStrip(SubSeq(s, 1, Len(s) - 1), c) ELSE s

\* lexicographic order of two strings
RECURSIVE StrLess(_, _)
StrLess(a, b) ==
    IF b = <<>> THEN FALSE
    ELSE IF a = <<>> THEN TRUE
    ELSE IF Head(a) # Head(b) THEN CharRank(Head(a)) < CharRank(Head(b))
    ELSE StrLess(Tail(a), Tail(b))

---------------------------------------------------------------------------
(* Paths (pathlib.PurePath). *)

\* Path.name
PathName(p) == SubSeq(p, RFind(p, "/") + 1, Len(p))

\* Path.parent
PathParent(p) == SubSeq(p, 1, RFind(p, "/") - 1)

\* Path / name
Join(d, n) == d \o <<"/">> \o n

\* Path.suffix of a file name
NameSuffix(n) ==
    LET i == RFind(n, ".")
    IN  IF 1 < i /\ i < Len(n) THEN SubSeq(n, i, Len(n)) ELSE <<>>

\* Path.stem of a file name
NameStem(n) ==
    LET i == RFind(n, ".")
    IN  IF 1 < i /\ i < Len(n) THEN SubSeq(n, 1, i - 1) ELSE n

\* the user's home directory
Home == <<"/","h">>

\* os.path.expanduser
ExpandUser(s) ==
    IF s # <<>> /\ s[1] = "~" /\ (Len(s) = 1 \/ s[2] = "/")
    THEN Home \o SubSeq(s, 2, Len(s))
    ELSE s

---------------------------------------------------------------------------
(* The file system.  files maps the path of every regular file to
   [content, mtime, tags, locked, readable]; dirs is the set of directories.
   A locked file cannot be unlinked or renamed (PermissionError); a file
   that is not readable cannot be opened. *)

Exists(fs, ds, p) == p \in DOMAIN fs \/ p \in ds

IsFile(fs, p) == p \in DOMAIN fs

\* p lies below directory d
Under(p, d) == StartsWith(p, d \o <<"/">>)

\* the directories above p, nearest last
RECURSIVE Ancestors(_)
Ancestors(p) ==
    LET par == PathParent(p)
    IN  IF par = <<>> THEN <<>> ELSE Append(Ancestors(par), par)

\* fs without the file at p
RemoveFile(fs, p) == [q \in (DOMAIN fs) \ {p} |-> fs[q]]

\* fs with the file at p set to attributes a
PutFile(fs, p, a) == [q \in (DOMAIN fs) \cup {p} |-> IF q = p THEN a ELSE fs[q]]

\* Path.stat().st_size: <<size>>, or <<>> when the stat fails
StatSize(fs, p) == IF p \in DOMAIN fs THEN <<Len(fs[p].content)>> ELSE <<>>

RECURSIVE SortPaths(_)
SortPaths(S) ==
    IF S = {} THEN <<>>
    ELSE LET m == CHOOSE x \in S : \A y \in S \ {x} : StrLess(x, y)
         IN  <<m>> \o SortPaths(S \ {m})

Reverse(s) == [i \in 1..Len(s) |-> s[Len(s) + 1 - i]]

\* Path.rglob("*") filtered by is_file(): the files below d, in the order the
\* disk enumerates them
Rglob(fs, d) ==
    LET found == SortPaths({p \in DOMAIN fs : Under(p, d)})
    IN  IF dirRev THEN Reverse(found) ELSE found

---------------------------------------------------------------------------
(* parser.py: conditions and rules.  An unset string or list field is <<>>
   (the code tests these fields for truth only); an optional size bound is
   <<>> when unset and <<n>> when set. *)

Truthy(opt) == opt # <<>> /\ opt[1] # 0

\* Condition.matches; st is the outcome of file_path.stat()
matches(c, p, st) ==
    LET name == PathName(p)
        ext  == LStrip(Lower(NameSuffix(name)), ".")
    IN  /\ (c.path # <<>> => StartsWith(p, ExpandUser(c.path)))
        /\ (c.extension # <<>> =>
              \E i \in 1..Len(c.extension) :
                  LStrip(Lower(c.extension[i]), ".") = ext)
        /\ (c.name_pattern # <<>> => Contains(name, c.name_pattern))
        /\ (c.pattern # <<>> => Contains(name, c.pattern))
        /\ ((Truthy(c.size_gt) \/ Truthy(c.size_lt)) =>
              /\ st # <<>>
              /\ (Truthy(c.size_gt) => st[1] > c.size_gt[1])
              /\ (Truthy(c.size_lt) => st[1] < c.size_lt[1]))

\* RuleParser._load_rules: the enabled entries, in declared order
LoadRules(entries) ==
    LET Enabled(r) == r.enabled IN SelectSeq(entries, Enabled)

\* RuleParser.load_all_rules
load_all_rules ==
    [move      |-> LoadRules(ruleFiles.move),
     rename    |-> LoadRules(ruleFiles.rename),
     tag       |-> LoadRules(ruleFiles.tag),
     duplicate |-> LoadRules(ruleFiles.duplicate)]

\* dict.get(key, default)
DictGet(d, k, default) == IF k \in DOMAIN d THEN d[k] ELSE default

---------------------------------------------------------------------------
(* actions/deduplicator.py: find_duplicates. *)

\* hashlib.sha256 over the whole content, taken as collision-free
Sha256(content) == [sha256 |-> content]

\* Deduplicator._hash_file: <<digest>>, or <<>> when the file cannot be read
HashFile(fs, p) ==
    IF p \in DOMAIN fs /\ fs[p].readable THEN <<Sha256(fs[p].content)>> ELSE <<>>

\* groups[key].append(p) on an insertion-ordered dict
GroupAppend(groups, key, p) ==
    IF \E i \in 1..Len(groups) : groups[i].key = key
    THEN LET i == CHOOSE i \in 1..Len(groups) : groups[i].key = key
         IN  [groups EXCEPT ![i].paths = Append(@, p)]
    ELSE Append(groups, [key |-> key, paths |-> <<p>>])

\* the loop of _find_by_name over fileList[1..n]
RECURSIVE NameGroups(_, _)
NameGroups(fileList, n) ==
    IF n = 0 THEN <<>>
    ELSE GroupAppend(NameGroups(fileList, n - 1), PathName(fileList[n]), fileList[n])

\* the loop of _find_by_content over fileList[1..n]
RECURSIVE HashGroups(_, _, _)
HashGroups(fs, fileList, n) ==
    IF n = 0 THEN <<>>
    ELSE LET sofar == HashGroups(fs, fileList, n - 1)
             p     == fileList[n]
         IN  IF ~IsFile(fs, p) THEN sofar
             ELSE IF HashFile(fs, p) = <<>> THEN sofar
             ELSE GroupAppend(sofar, HashFile(fs, p)[1], p)

\* the filter of lines 39 and 57 letting groups of one file through
AtLeastOne(groups) == [i \in 1..Len(groups) |-> groups[i].paths]

\* [paths for paths in groups.values() if len(paths) > 1]
MoreThanOne(groups) ==
    LET Big(g) == Len(g.paths) > 1
        kept   == SelectSeq(groups, Big)
    IN  [i \in 1..Len(kept) |-> kept[i].paths]

_find_by_name(fileList) == MoreThanOne(NameGroups(fileList, Len(fileList)))

_find_by_content(fs, fileList) == MoreThanOne(HashGroups(fs, fileList, Len(fileList)))

find_duplicates(fs, fileList, check_by) ==
    IF check_by = "name" THEN _find_by_name(fileList) ELSE _find_by_content(fs, fileList)

---------------------------------------------------------------------------
(* runner.py: Operation and the planner. *)

\* Operation.error when no error was recorded (None)
NoError == "None"

\* Operation.__init__; id stands for the object's identity, set by the caller
Operation(rule_name, operation_type, source, details) ==
    [id             |-> 0,
     rule_name      |-> rule_name,
     operation_type |-> operation_type,
     source         |-> source,
     details        |-> details,
     executed       |-> FALSE,
     success        |-> FALSE,
     error          |-> NoError]

\* Runner._scan_directory
_scan_directory(fs, ds, path) ==
    LET scan_path == ExpandUser(path)
    IN  IF ~Exists(fs, ds, scan_path) THEN <<>>
        ELSE IF IsFile(fs, scan_path) THEN <<scan_path>>
        ELSE Rglob(fs, scan_path)

\* the scans of several paths, one after the other
RECURSIVE ScanAll(_, _, _)
ScanAll(fs, ds, paths) ==
    IF paths = <<>> THEN <<>>
    ELSE _scan_directory(fs, ds, Head(paths)) \o ScanAll(fs, ds, Tail(paths))

\* "~/Downloads", "~/Documents", "~/Desktop"
TildeDownloads == <<"~","/","D","o","w","n","l","o","a","d","s">>
TildeDocuments == <<"~","/","D","o","c","u","m","e","n","t","s">>
TildeDesktop   == <<"~","/","D","e","s","k","t","o","p">>

\* scan_paths of _plan_rename_operations and _plan_tag_operations
CommonScanPaths == <<TildeDownloads, TildeDocuments, TildeDesktop>>

\* scan_paths of _plan_duplicate_operations
DuplicateScanPaths == <<TildeDownloads, TildeDocuments>>

\* the files of fileList the rule's condition matches, in order
Matching(fs, rule, fileList) ==
    LET Hit(p) == matches(rule.condition, p, StatSize(fs, p))
    IN  SelectSeq(fileList, Hit)

\* Runner._plan_move_operations: the operations it appends
_plan_move_operations(fs, ds, rule) ==
    IF rule.condition.path = <<>> THEN <<>>
    ELSE LET hits == Matching(fs, rule, _scan_directory(fs, ds, rule.condition.path))
         IN  [i \in 1..Len(hits) |->
                Operation(rule.name, "move", hits[i],
                          [destination       |-> ExpandUser(rule.action.move),
                           create_if_missing |-> rule.action.create_if_missing,
                           tag               |-> rule.action.tag])]

\* Runner._plan_rename_operations: the operations it appends
_plan_rename_operations(fs, ds, rule) ==
    LET hits == Matching(fs, rule, ScanAll(fs, ds, CommonScanPaths))
    IN  [i \in 1..Len(hits) |->
           Operation(rule.name, "rename", hits[i],
                     [replace   |-> rule.action.replace,
                      prefix    |-> rule.action.prefix,
                      suffix    |-> rule.action.suffix,
                      separator |-> rule.action.separator])]

\* rule.action.tag or {}
TagOrEmpty(tag) == IF tag = <<>> THEN [color |-> <<>>, label |-> <<>>] ELSE tag[1]

\* Runner._plan_tag_operations: the operations it appends
_plan_tag_operations(fs, ds, rule) ==
    LET hits == Matching(fs, rule, ScanAll(fs, ds, CommonScanPaths))
    IN  [i \in 1..Len(hits) |->
           Operation(rule.name, "tag", hits[i], TagOrEmpty(rule.action.tag))]

\* Runner._plan_duplicate_operations: the operations it appends
_plan_duplicate_operations(fs, ds, rule) ==
    LET all_files  == ScanAll(fs, ds, DuplicateScanPaths)
        duplicates == find_duplicates(fs, all_files, rule.check_by)
    IN  [i \in 1..Len(duplicates) |->
           Operation(rule.name, "duplicate", duplicates[i][1],
                     [duplicates |-> duplicates[i],
                      action     |-> rule.action])]

\* the for loops of scan_and_plan: one rule list, rule after rule
RECURSIVE PlanMoves(_, _, _)
PlanMoves(fs, ds, rules) ==
    IF rules = <<>> THEN <<>>
    ELSE _plan_move_operations(fs, ds, Head(rules)) \o PlanMoves(fs, ds, Tail(rules))

RECURSIVE PlanRenames(_, _, _)
PlanRenames(fs, ds, rules) ==
    IF rules = <<>> THEN <<>>
    ELSE _plan_rename_operations(fs, ds, Head(rules)) \o PlanRenames(fs, ds, Tail(rules))

RECURSIVE PlanTags(_, _, _)
PlanTags(fs, ds, rules) ==
    IF rules = <<>> THEN <<>>
    ELSE _plan_tag_operations(fs, ds, Head(rules)) \o PlanTags(fs, ds, Tail(rules))

RECURSIVE PlanDuplicates(_, _, _)
PlanDuplicates(fs, ds, rules) ==
    IF rules = <<>> THEN <<>>
    ELSE _plan_duplicate_operations(fs, ds, Head(rules))
            \o PlanDuplicates(fs, ds, Tail(rules))

\* the Operation objects created by one call get fresh identities
Fresh(ops, first) == [i \in 1..Len(ops) |-> [ops[i] EXCEPT !.id = first + i - 1]]

\* scan_and_plan without line 74: the new operations are appended to the old
scan_and_plan_appending(old, fs, ds, first) ==
    old \o Fresh(PlanMoves(fs, ds, load_all_rules.move)
                   \o PlanRenames(fs, ds, load_all_rules.rename)
                   \o PlanTags(fs, ds, load_all_rules.tag)
                   \o PlanDuplicates(fs, ds, load_all_rules.duplicate), first)

\* scan_and_plan with the tag rules processed before the rename rules
scan_and_plan_tags_first(old, fs, ds, first) ==
    Fresh(PlanMoves(fs, ds, load_all_rules.move)
            \o PlanTags(fs, ds, load_all_rules.tag)
            \o PlanRenames(fs, ds, load_all_rules.rename)
            \o PlanDuplicates(fs, ds, load_all_rules.duplicate), first)

\* Runner.scan_and_plan: the value of self.operations when it returns, given
\* the value old it had when the call started
scan_and_plan(old, fs, ds, first) ==
    LET rules == load_all_rules
        start == <<>>
    IN  start \o Fresh(PlanMoves(fs, ds, rules.move)
                         \o PlanRenames(fs, ds, rules.rename)
                         \o PlanTags(fs, ds, rules.tag)
                         \o PlanDuplicates(fs, ds, rules.duplicate), first)

\* what a planned operation says, without its identity and execution state
Describe(op) ==
    [rule_name      |-> op.rule_name,
     operation_type |-> op.operation_type,
     source         |-> op.source,
     details        |-> op.details]

DescribeAll(ops) == [i \in 1..Len(ops) |-> Describe(ops[i])]

---------------------------------------------------------------------------
(* actions/tagger.py.  A file's tags are the list last written to its
   com.apple.metadata:_kMDItemUserTags attribute. *)

\* the keys of TAG_COLORS (each maps to itself)
TAG_COLORS ==
    { <<"g","r","a","y">>, <<"r","e","d">>, <<"o","r","a","n","g","e">>,
      <<"y","e","l","l","o","w">>, <<"g","r","e","e","n">>, <<"b","l","u","e">>,
      <<"p","u","r","p","l","e">> }

\* the list tags that add_tag builds from color and label
TagList(color, label) ==
    (IF color # <<>> /\ Lower(color) \in TAG_COLORS THEN <<Lower(color)>> ELSE <<>>)
        \o (IF label # <<>> THEN <<label>> ELSE <<>>)

\* Tagger.add_tag: the disk afterwards and the value returned
add_tag(fs, ds, file_path, color, label) ==
    IF ~is_macos THEN [fs |-> fs, ok |-> FALSE]
    ELSE IF ~Exists(fs, ds, file_path) THEN [fs |-> fs, ok |-> FALSE]
    ELSE IF TagList(color, label) = <<>> THEN [fs |-> fs, ok |-> FALSE]
    ELSE IF file_path \in DOMAIN fs
         THEN [fs |-> [fs EXCEPT ![file_path].tags = TagList(color, label)],
               ok |-> TRUE]
         ELSE [fs |-> fs, ok |-> TRUE]   \* a directory: its tags are not modelled

---------------------------------------------------------------------------
(* actions/deduplicator.py: handle_duplicates. *)

\* Deduplicator._move_to_trash: the disk afterwards.  Finder's delete (run
\* with check=False) and unlink (inside try/except) both leave the file in
\* place when they fail, and neither raises.
_move_to_trash(fs, file_path) ==
    IF is_macos
    THEN IF file_path \in DOMAIN fs /\ ~fs[file_path].locked
         THEN RemoveFile(fs, file_path) ELSE fs
    ELSE IF file_path \in DOMAIN fs /\ ~fs[file_path].locked
         THEN RemoveFile(fs, file_path) ELSE fs

\* max(group, key=mtime) / min(group, key=mtime): the first element whose
\* modification time is the largest / smallest
MaxByMtime(fs, group) ==
    group[CHOOSE i \in 1..Len(group) :
            /\ \A j \in 1..Len(group) : fs[group[j]].mtime <= fs[group[i]].mtime
            /\ \A j \in 1..(i - 1) : fs[group[j]].mtime < fs[group[i]].mtime]

MinByMtime(fs, group) ==
    group[CHOOSE i \in 1..Len(group) :
            /\ \A j \in 1..Len(group) : fs[group[j]].mtime >= fs[group[i]].mtime
            /\ \A j \in 1..(i - 1) : fs[group[j]].mtime > fs[group[i]].mtime]

\* the choice of lines 89-94 with max and min exchanged
KeepFileExchanged(fs, group, keep) ==
    IF keep = "newest" THEN MinByMtime(fs, group)
    ELSE IF keep = "oldest" THEN MaxByMtime(fs, group)
    ELSE group[1]

\* lines 89-94: the file to keep
KeepFile(fs, group, keep) ==
    IF keep = "newest" THEN MaxByMtime(fs, group)
    ELSE IF keep = "oldest" THEN MinByMtime(fs, group)
    ELSE group[1]

\* lines 89-92: p.stat() raises for a path that is not on disk
KeepRaises(fs, group, keep) ==
    /\ keep \in {"newest", "oldest"}
    /\ \E i \in 1..Len(group) : group[i] \notin DOMAIN fs

\* the loop of lines 97-108 given up once a removal has failed
RECURSIVE DisposeUntilFailure(_, _, _, _, _, _, _)
DisposeUntilFailure(fs, ds, group, n, keep_file, tag_duplicates, duplicate_label) ==
    IF n = 0 THEN [fs |-> fs, trashed |-> <<>>, tagged |-> <<>>]
    ELSE LET st == DisposeUntilFailure(fs, ds, group, n - 1, keep_file,
                                       tag_duplicates, duplicate_label)
             file_path == group[n]
         IN  IF file_path = keep_file THEN st
             ELSE IF tag_duplicates
             THEN [st EXCEPT
                     !.fs = add_tag(st.fs, ds, file_path, <<>>, duplicate_label).fs,
                     !.tagged = Append(@, file_path)]
             ELSE IF st.trashed # <<>> /\ st.trashed[Len(st.trashed)] \in DOMAIN st.fs
             THEN st
             ELSE [st EXCEPT
                     !.fs = _move_to_trash(st.fs, file_path),
                     !.trashed = Append(@, file_path)]

\* lines 97-108: the loop over duplicate_group[1..n]; trashed and tagged list
\* the paths handed to _move_to_trash and to add_tag
RECURSIVE DisposeLoop(_, _, _, _, _, _, _)
DisposeLoop(fs, ds, group, n, keep_file, tag_duplicates, duplicate_label) ==
    IF n = 0 THEN [fs |-> fs, trashed |-> <<>>, tagged |-> <<>>]
    ELSE LET st == DisposeLoop(fs, ds, group, n - 1, keep_file, tag_duplicates,
                               duplicate_label)
             file_path == group[n]
         IN  IF file_path = keep_file THEN st
             ELSE IF tag_duplicates
             THEN [st EXCEPT
                     !.fs = add_tag(st.fs, ds, file_path, <<>>, duplicate_label).fs,
                     !.tagged = Append(@, file_path)]
             ELSE [st EXCEPT
                     !.fs = _move_to_trash(st.fs, file_path),
                     !.trashed = Append(@, file_path)]

\* Deduplicator.handle_duplicates: the disk afterwards, the exception raised
\* (NoError when it returns), the file kept (<<>> when none was chosen)
handle_duplicates(fs, ds, group, keep, tag_duplicates, duplicate_label) ==
    IF Len(group) < 2
    THEN [fs |-> fs, error |-> NoError, kept |-> <<>>, trashed |-> <<>>, tagged |-> <<>>]
    ELSE IF KeepRaises(fs, group, keep)
    THEN [fs |-> fs, error |-> "FileNotFoundError", kept |-> <<>>,
          trashed |-> <<>>, tagged |-> <<>>]
    ELSE LET keep_file == KeepFile(fs, group, keep)
             st == DisposeLoop(fs, ds, group, Len(group), keep_file, tag_duplicates,
                               duplicate_label)
         IN  [fs |-> st.fs, error |-> NoError, kept |-> <<keep_file>>,
              trashed |-> st.trashed, tagged |-> st.tagged]

---------------------------------------------------------------------------
(* actions/mover.py. *)

\* Path.mkdir(parents=True, exist_ok=True)
Mkdir(fs, ds, d) ==
    IF d \in DOMAIN fs THEN [ds |-> ds, error |-> "FileExistsError"]
    ELSE IF \E i \in 1..Len(Ancestors(d)) : Ancestors(d)[i] \in DOMAIN fs
    THEN [ds |-> ds, error |-> "NotADirectoryError"]
    ELSE [ds |-> ds \cup {d} \cup {Ancestors(d)[i] : i \in 1..Len(Ancestors(d))},
          error |-> NoError]

\* shutil.move of a regular file src.  os.rename replaces an existing file at
\* the destination; when os.rename is refused for a locked source, shutil
\* copies the file and the unlink of the source raises.
ShutilMove(fs, ds, src, dst) ==
    LET real_dst == IF dst \in ds THEN Join(dst, PathName(src)) ELSE dst
    IN  IF dst \in ds /\ Exists(fs, ds, real_dst)
        THEN [fs |-> fs, ds |-> ds, error |-> "shutil.Error"]
        ELSE IF real_dst = src THEN [fs |-> fs, ds |-> ds, error |-> NoError]
        ELSE IF real_dst \in DOMAIN fs /\ fs[real_dst].locked
        THEN [fs |-> fs, ds |-> ds, error |-> "PermissionError"]
        ELSE IF fs[src].locked
        THEN [fs |-> PutFile(fs, real_dst, [fs[src] EXCEPT !.locked = FALSE]),
              ds |-> ds, error |-> "PermissionError"]
        ELSE [fs |-> PutFile(RemoveFile(fs, src), real_dst, fs[src]),
              ds |-> ds, error |-> NoError]

\* Mover.move: the disk afterwards and the exception raised
Mover_move(fs, ds, source, destination) ==
    IF ~Exists(fs, ds, source)
    THEN [fs |-> fs, ds |-> ds, error |-> "FileNotFoundError"]
    ELSE LET dest == IF destination \in ds
                     THEN Join(destination, PathName(source)) ELSE destination
             mk   == Mkdir(fs, ds, PathParent(dest))
         IN  IF mk.error # NoError THEN [fs |-> fs, ds |-> ds, error |-> mk.error]
             ELSE ShutilMove(fs, mk.ds, source, dest)

---------------------------------------------------------------------------
(* actions/renamer.py. *)

Digits == {"0","1","2","3","4","5","6","7","8","9"}

\* how many characters of s, from position i on, lie in set S without a break
RECURSIVE RunLen(_, _, _)
RunLen(s, i, S) ==
    IF i >= 1 /\ i <= Len(s) /\ s[i] \in S THEN 1 + RunLen(s, i + 1, S) ELSE 0

\* length of the match of  open \d+ close  (with eatSpace: \s* around it) at
\* the start of s, 0 when there is none
NumberedMatch(s, open, close, eatSpace) ==
    LET w == IF eatSpace THEN RunLen(s, 1, {" "}) ELSE 0
        d == RunLen(s, w + 2, Digits)
    IN  IF /\ Len(s) >= w + 1 /\ s[w + 1] = open
           /\ d > 0
           /\ Len(s) >= w + 2 + d /\ s[w + 2 + d] = close
        THEN w + 2 + d + (IF eatSpace THEN RunLen(s, w + 3 + d, {" "}) ELSE 0)
        ELSE 0

\* re.sub of such a pattern by the literal text repl
RECURSIVE SubNumbered(_, _, _, _, _)
SubNumbered(s, open, close, eatSpace, repl) ==
    IF s = <<>> THEN <<>>
    ELSE LET m == NumberedMatch(s, open, close, eatSpace)
         IN  IF m > 0
             THEN repl \o SubNumbered(SubSeq(s, m + 1, Len(s)), open, close, eatSpace, repl)
             ELSE <<Head(s)>> \o SubNumbered(Tail(s), open, close, eatSpace, repl)

\* lines 44-47: the three substitutions (names here hold no full-width parentheses)
ApplyReplace(name, replace) ==
    SubNumbered(SubNumbered(SubNumbered(name, "(", ")", FALSE, replace),
                            "(", ")", TRUE, replace),
                "[", "]", TRUE, replace)

\* length of the match of  re.escape(separator)+  at the start of s: all but
\* the last character of the separator, then its last character once or more
SeparatorMatch(s, sep) ==
    LET n == Len(sep)
    IN  IF StartsWith(s, sep) THEN (n - 1) + RunLen(s, n, {sep[n]}) ELSE 0

\* line 58: re.sub(rf"{re.escape(separator)}+", separator, name)
RECURSIVE CollapseSeparators(_, _)
CollapseSeparators(s, sep) ==
    IF s = <<>> THEN <<>>
    ELSE LET m == SeparatorMatch(s, sep)
         IN  IF m > 0
             THEN sep \o CollapseSeparators(SubSeq(s, m + 1, Len(s)), sep)
             ELSE <<Head(s)>> \o CollapseSeparators(Tail(s), sep)

\* line 59: str.strip(separator) strips the characters of separator
Strip(s, sep) ==
    LET S == {sep[i] : i \in 1..Len(sep)}
        a == RunLen(s, 1, S)
        r == Reverse(s)
        b == RunLen(r, 1, S)
    IN  IF a = Len(s) THEN <<>> ELSE SubSeq(s, a + 1, Len(s) - b)

\* lines 40-59: the new stem
NewStem(stem, replace, prefix, suffix, separator) ==
    LET n1 == IF replace # <<>> THEN ApplyReplace(stem, replace) ELSE stem
        n2 == IF prefix # <<>> THEN prefix \o separator \o n1 ELSE n1
        n3 == IF suffix # <<>> THEN n2 \o separator \o suffix ELSE n2
    IN  Strip(CollapseSeparators(n3, separator), separator)

\* lines 40-62: the new path
NewPath(file_path, replace, prefix, suffix, separator) ==
    LET leaf == NewStem(NameStem(PathName(file_path)), replace, prefix, suffix, separator)
                    \o NameSuffix(PathName(file_path))
    IN  IF leaf = <<>> THEN PathParent(file_path) ELSE Join(PathParent(file_path), leaf)

\* Path.rename (os.rename) of a regular file: an existing file at the target
\* is replaced
OsRename(fs, ds, src, dst) ==
    IF dst \in ds THEN [fs |-> fs, error |-> "IsADirectoryError"]
    ELSE IF fs[src].locked \/ (dst \in DOMAIN fs /\ fs[dst].locked)
    THEN [fs |-> fs, error |-> "PermissionError"]
    ELSE [fs |-> PutFile(RemoveFile(fs, src), dst, fs[src]), error |-> NoError]

\* Renamer.rename: the disk afterwards and the exception raised.  An empty
\* separator makes the pattern of line 58 invalid (re.error).
Renamer_rename(fs, ds, file_path, replace, prefix, suffix, separator) ==
    IF ~Exists(fs, ds, file_path) THEN [fs |-> fs, error |-> "FileNotFoundError"]
    ELSE IF separator = <<>> THEN [fs |-> fs, error |-> "re.error"]
    ELSE LET new_path == NewPath(file_path, replace, prefix, suffix, separator)
         IN  IF new_path # file_path
             THEN OsRename(fs, ds, file_path, new_path)
             ELSE [fs |-> fs, error |-> NoError]

---------------------------------------------------------------------------
(* runner.py: the executor. *)

\* Runner._execute_move: the disk afterwards and the exception raised
_execute_move(fs, ds, op) ==
    LET dest == op.details.destination
        mk   == IF op.details.create_if_missing
                THEN Mkdir(fs, ds, dest) ELSE [ds |-> ds, error |-> NoError]
        mv   == Mover_move(fs, mk.ds, op.source, dest)
    IN  IF mk.error # NoError THEN [fs |-> fs, ds |-> ds, error |-> mk.error]
        ELSE IF mv.error # NoError THEN mv
        ELSE IF op.details.tag # <<>>
        THEN [fs |-> add_tag(mv.fs, mv.ds, op.source, op.details.tag[1].color,
                             op.details.tag[1].label).fs,
              ds |-> mv.ds, error |-> NoError]
        ELSE mv

\* Runner._execute_rename
_execute_rename(fs, ds, op) ==
    LET rn == Renamer_rename(fs, ds, op.source, op.details.replace, op.details.prefix,
                             op.details.suffix, op.details.separator)
    IN  [fs |-> rn.fs, ds |-> ds, error |-> rn.error]

\* Runner._execute_tag
_execute_tag(fs, ds, op) ==
    [fs |-> add_tag(fs, ds, op.source, op.details.color, op.details.label).fs,
     ds |-> ds, error |-> NoError]

\* the default of duplicate_label, U+91CD U+590D, written in Latin letters
DefaultDuplicateLabel == <<"c","h","o","n","g","f","u">>

\* Runner._execute_duplicate
_execute_duplicate(fs, ds, op) ==
    LET action == op.details.action
        hd == handle_duplicates(fs, ds, op.details.duplicates,
                                DictGet(action, "keep", "newest"),
                                DictGet(action, "tag_duplicates", FALSE),
                                DictGet(action, "duplicate_label", DefaultDuplicateLabel))
    IN  [fs |-> hd.fs, ds |-> ds, error |-> hd.error]

\* lines 217-224: the dispatch on operation_type
Dispatch(fs, ds, op) ==
    IF op.operation_type = "move" THEN _execute_move(fs, ds, op)
    ELSE IF op.operation_type = "rename" THEN _execute_rename(fs, ds, op)
    ELSE IF op.operation_type = "tag" THEN _execute_tag(fs, ds, op)
    ELSE IF op.operation_type = "duplicate" THEN _execute_duplicate(fs, ds, op)
    ELSE [fs |-> fs, ds |-> ds, error |-> NoError]

\* the disk as the dispatch log keeps it
Snapshot(fs) == [p \in DOMAIN fs |-> fs[p]]

\* lines 226-236: what one turn of the loop records for operation i, the
\* collaborator having left the disk and the exception out.  log records the
\* dispatch, whether the collaborator raised, and the disk before and after.
Record(st, i, out) ==
    [files      |-> out.fs,
     dirs       |-> out.ds,
     operations |-> [st.operations EXCEPT ![i] =
                        IF out.error = NoError
                        THEN [@ EXCEPT !.executed = TRUE, !.success = TRUE]
                        ELSE [@ EXCEPT !.executed = TRUE, !.success = FALSE,
                                       !.error = out.error]],
     results    |-> Append(st.results,
                           [operation |-> st.operations[i].id,
                            timestamp |-> st.clock + 1]),
     clock      |-> st.clock + 1,
     log        |-> Append(st.log, [id |-> st.operations[i].id,
                                    raised |-> out.error # NoError,
                                    error |-> out.error,
                                    op |-> Describe(st.operations[i]),
                                    before |-> Snapshot(st.files),
                                    dirsBefore |-> st.dirs,
                                    after |-> Snapshot(out.fs),
                                    dirsAfter |-> out.ds])]

\* lines 215-236: one turn of the loop, on operation i
ExecuteOne(st, i) == Record(st, i, Dispatch(st.files, st.dirs, st.operations[i]))

\* the loop over self.operations[1..n]
RECURSIVE ExecuteLoop(_, _)
ExecuteLoop(st, n) ==
    IF n = 0 THEN st ELSE ExecuteOne(ExecuteLoop(st, n - 1), n)

\* line 238: the Runner and the disk when execute returns self.results
Returned(st) ==
    [files |-> st.files, dirs |-> st.dirs, operations |-> st.operations,
     results |-> st.results, clock |-> st.clock, log |-> st.log, ret |-> st.results]

\* execute without the check of line 209
execute_ignoring_dry_run ==
    Returned(ExecuteLoop([files |-> files, dirs |-> dirs,
                          operations |-> operations, results |-> <<>>,
                          clock |-> clock, log |-> <<>>],
                         Len(operations)))

\* the loop leaving at the first operation whose collaborator raised
RECURSIVE LoopUntilFailure(_, _)
LoopUntilFailure(st, n) ==
    IF n = 0 THEN st
    ELSE IF LoopUntilFailure(st, n - 1).log # <<>>
            /\ LoopUntilFailure(st, n - 1).log[Len(LoopUntilFailure(st, n - 1).log)].raised
    THEN LoopUntilFailure(st, n - 1)
    ELSE ExecuteOne(LoopUntilFailure(st, n - 1), n)

\* execute with a break in the except clause
execute_until_failure ==
    IF dry_run
    THEN [files |-> files, dirs |-> dirs, operations |-> operations,
          results |-> results, clock |-> clock, log |-> <<>>, ret |-> <<>>]
    ELSE Returned(LoopUntilFailure([files |-> files, dirs |-> dirs,
                                    operations |-> operations, results |-> <<>>,
                                    clock |-> clock, log |-> <<>>],
                                   Len(operations)))

\* one turn of the loop with line 236 inside the try block
RecordSuccess(st, i, out) ==
    IF out.error = NoError THEN Record(st, i, out)
    ELSE [Record(st, i, out) EXCEPT !.results = st.results]

RECURSIVE LoopRecordingSuccess(_, _)
LoopRecordingSuccess(st, n) ==
    IF n = 0 THEN st
    ELSE RecordSuccess(LoopRecordingSuccess(st, n - 1), n,
                       Dispatch(LoopRecordingSuccess(st, n - 1).files,
                                LoopRecordingSuccess(st, n - 1).dirs,
                                LoopRecordingSuccess(st, n - 1).operations[n]))

\* execute appending a result for the successful operations only
execute_results_on_success ==
    IF dry_run
    THEN [files |-> files, dirs |-> dirs, operations |-> operations,
          results |-> results, clock |-> clock, log |-> <<>>, ret |-> <<>>]
    ELSE Returned(LoopRecordingSuccess([files |-> files, dirs |-> dirs,
                                        operations |-> operations, results |-> <<>>,
                                        clock |-> clock, log |-> <<>>],
                                       Len(operations)))

\* Runner.execute: the Runner and the disk when it returns, and the list ret
\* it returns
execute ==
    IF dry_run
    THEN [files |-> files, dirs |-> dirs, operations |-> operations,
          results |-> results, clock |-> clock, log |-> <<>>, ret |-> <<>>]
    ELSE Returned(ExecuteLoop([files |-> files, dirs |-> dirs,
                               operations |-> operations, results |-> <<>>,
                               clock |-> clock, log |-> <<>>],
                              Len(operations)))

---------------------------------------------------------------------------
(* The calls made on one Runner. *)

\* the destinations of the planned moves that ask for create_if_missing
PlannedDestinations(ops) ==
    {ops[i].details.destination :
        i \in {j \in 1..Len(ops) : /\ ops[j].operation_type = "move"
                                    /\ ops[j].details.create_if_missing}}

\* scan_and_plan creating the destination directories while it plans
ScanAndPlanCreatingDirs ==
    /\ callNo < MaxCalls
    /\ operations' = scan_and_plan(operations, files, dirs, nextId)
    /\ nextId' = nextId + Len(operations')
    /\ planHist' = Append(planHist, [operations |-> DescribeAll(operations'),
                                     files |-> files, dirs |-> dirs])
    /\ dirs' = dirs \cup PlannedDestinations(operations')
    /\ last' = "plan"
    /\ callNo' = callNo + 1
    /\ UNCHANGED <<files, dirRev, is_macos, dry_run, ruleFiles, results, clock,
                   ret, calls, lastCalls>>
    /\ UNCHANGED dedupVars
    /\ UNCHANGED callVars

\* operations = runner.scan_and_plan()
ScanAndPlan ==
    /\ callNo < MaxCalls
    /\ operations' = scan_and_plan(operations, files, dirs, nextId)
    /\ nextId' = nextId + Len(operations')
    /\ planHist' = Append(planHist, [operations |-> DescribeAll(operations'),
                                     files |-> files, dirs |-> dirs])
    /\ last' = "plan"
    /\ callNo' = callNo + 1
    /\ UNCHANGED <<files, dirs, dirRev, is_macos, dry_run, ruleFiles, results, clock,
                   ret, calls, lastCalls>>
    /\ UNCHANGED dedupVars
    /\ UNCHANGED callVars

\* the Runner and the disk take the values r that a call of execute left
Executed(r) ==
    /\ files' = r.files
    /\ dirs' = r.dirs
    /\ operations' = r.operations
    /\ results' = r.results
    /\ clock' = r.clock
    /\ ret' = r.ret
    /\ calls' = calls \o r.log
    /\ lastCalls' = r.log

\* results = runner.execute()
Execute ==
    /\ callNo < MaxCalls
    /\ Executed(execute)
    /\ last' = "execute"
    /\ callNo' = callNo + 1
    /\ UNCHANGED <<dirRev, is_macos, dry_run, ruleFiles, nextId, planHist>>
    /\ UNCHANGED dedupVars
    /\ UNCHANGED callVars

---------------------------------------------------------------------------
(* The disks and rule files the model starts from. *)

DownloadsDir == ExpandUser(TildeDownloads)
DocumentsDir == ExpandUser(TildeDocuments)
DesktopDir   == ExpandUser(TildeDesktop)
TildePDFs    == TildeDocuments \o <<"/","P","D","F","s">>
PDFsDir      == ExpandUser(TildePDFs)

NameATxt == <<"a",".","t","x","t">>
NameBPdf == <<"b",".","p","d","f">>

DownloadsA == Join(DownloadsDir, NameATxt)
DownloadsB == Join(DownloadsDir, NameBPdf)
DocumentsA == Join(DocumentsDir, NameATxt)
PDFsB      == Join(PDFsDir, NameBPdf)
DesktopA   == Join(DesktopDir, NameATxt)

ContentX == <<"x">>
ContentY == <<"y","y">>

File(content, mtime) ==
    [content |-> content, mtime |-> mtime, tags |-> <<>>, locked |-> FALSE,
     readable |-> TRUE]

\* a place of the disk that holds no file
Absent == [content |-> <<>>, mtime |-> 0, tags |-> <<>>, locked |-> FALSE,
           readable |-> TRUE]

\* what each place may hold when the run starts
StartOptions(p) ==
    IF p = DownloadsA THEN {Absent, File(ContentX, 1), File(ContentY, 3)}
    ELSE IF p = DownloadsB
    THEN {Absent, File(ContentX, 3), [File(ContentX, 3) EXCEPT !.locked = TRUE]}
    ELSE IF p = DocumentsA
    THEN {Absent, File(ContentX, 2), [File(ContentY, 2) EXCEPT !.readable = FALSE]}
    ELSE IF p = PDFsB THEN {Absent, File(ContentX, 1)}
    ELSE {Absent, File(ContentX, 2)}

StartPlaces == {DownloadsA, DownloadsB, DocumentsA, PDFsB, DesktopA}

\* the disk holding, at each place, what f gives for it
Disk(f) == [p \in {q \in StartPlaces : f[q] # Absent} |-> f[p]]

\* the directories of a disk holding the files fs
DirsOf(fs) ==
    {Home, DownloadsDir, DocumentsDir, DesktopDir}
        \cup UNION {{Ancestors(p)[i] : i \in 1..Len(Ancestors(p))} : p \in DOMAIN fs}

Condition(path, extension, name_pattern) ==
    [path |-> path, extension |-> extension, pattern |-> <<>>, size_gt |-> <<>>,
     size_lt |-> <<>>, name_pattern |-> name_pattern]

NoAction ==
    [move |-> <<>>, create_if_missing |-> FALSE, rename |-> <<>>, replace |-> <<>>,
     prefix |-> <<>>, suffix |-> <<>>, separator |-> <<"-">>, tag |-> <<>>]

MovePdf ==
    [name |-> "pdf-to-PDFs", enabled |-> TRUE,
     condition |-> Condition(TildeDownloads, << <<"p","d","f">> >>, <<>>),
     action |-> [NoAction EXCEPT !.move = TildePDFs, !.create_if_missing = TRUE,
                    !.tag = <<[color |-> <<"R","e","d">>, label |-> <<>>]>>]]

\* files already below ~/Documents/PDFs are in the scope of this rule
MoveFiled ==
    [name |-> "file-pdfs", enabled |-> TRUE,
     condition |-> Condition(TildeDocuments, << <<"p","d","f">> >>, <<>>),
     action |-> [NoAction EXCEPT !.move = TildePDFs, !.create_if_missing = TRUE,
                    !.tag = <<[color |-> <<>>, label |-> <<"k">>]>>]]

MoveTxt ==
    [name |-> "txt-to-Documents", enabled |-> TRUE,
     condition |-> Condition(TildeDownloads, << <<".","T","X","T">> >>, <<>>),
     action |-> [NoAction EXCEPT !.move = TildeDocuments]]

MoveUnscoped ==
    [name |-> "unscoped", enabled |-> TRUE,
     condition |-> Condition(<<>>, <<>>, <<>>),
     action |-> [NoAction EXCEPT !.move = TildeDesktop]]

RenamePrefix ==
    [name |-> "prefix-N", enabled |-> TRUE,
     condition |-> Condition(<<>>, << <<"t","x","t">> >>, <<>>),
     action |-> [NoAction EXCEPT !.prefix = <<"N">>]]

RenameSuffix ==
    [name |-> "suffix-old", enabled |-> TRUE,
     condition |-> [Condition(<<>>, <<>>, <<"b">>) EXCEPT !.size_gt = <<0>>],
     action |-> [NoAction EXCEPT !.suffix = <<"o","l","d">>, !.separator = <<"_">>]]

TagBlue ==
    [name |-> "tag-a", enabled |-> TRUE,
     condition |-> [Condition(<<>>, <<>>, <<"a">>) EXCEPT !.size_lt = <<2>>],
     action |-> [NoAction EXCEPT
                    !.tag = <<[color |-> <<"b","l","u","e">>, label |-> <<"k">>]>>]]

TagNothing ==
    [name |-> "tag-nothing", enabled |-> TRUE,
     condition |-> Condition(TildeDesktop, <<>>, <<>>),
     action |-> NoAction]

TagDisabled == [TagBlue EXCEPT !.name = "tag-off", !.enabled = FALSE]

DupContent ==
    [name |-> "dup-content", enabled |-> TRUE, check_by |-> "content",
     action |-> [keep |-> "newest"]]

DupOldest ==
    [name |-> "dup-oldest", enabled |-> TRUE, check_by |-> "content",
     action |-> [keep |-> "oldest", tag_duplicates |-> FALSE]]

DupName ==
    [name |-> "dup-name", enabled |-> TRUE, check_by |-> "name",
     action |-> [keep |-> "first", tag_duplicates |-> TRUE,
                 duplicate_label |-> <<"d","u","p">>]]

DupFirst ==
    [name |-> "dup-first", enabled |-> TRUE, check_by |-> "content",
     action |-> [keep |-> "first"]]

StartRuleFiles ==
    { [move |-> <<MovePdf, MoveTxt>>, rename |-> <<RenamePrefix>>,
       tag |-> <<TagBlue>>, duplicate |-> <<DupContent>>],
      [move |-> <<MoveUnscoped, MoveTxt>>, rename |-> <<>>,
       tag |-> <<TagNothing>>, duplicate |-> <<DupName, DupContent>>],
      [move |-> <<>>, rename |-> <<RenamePrefix, RenameSuffix>>,
       tag |-> <<>>, duplicate |-> <<DupOldest>>],
      [move |-> <<MovePdf>>, rename |-> <<>>,
       tag |-> <<TagDisabled, TagBlue>>, duplicate |-> <<>>],
      [move |-> <<>>, rename |-> <<>>,
       tag |-> <<>>, duplicate |-> <<DupContent, DupName>>],
      [move |-> <<MoveFiled, MovePdf>>, rename |-> <<>>,
       tag |-> <<>>, duplicate |-> <<DupOldest>>],
      [move |-> <<>>, rename |-> <<>>,
       tag |-> <<>>, duplicate |-> <<DupContent, DupFirst>>] }

\* Runner.__init__ on some disk, with some rule files
Init ==
    /\ \E a \in StartOptions(DownloadsA), b \in StartOptions(DownloadsB),
          c \in StartOptions(DocumentsA), d \in StartOptions(PDFsB),
          e \in StartOptions(DesktopA) :
            files = Disk([p \in StartPlaces |->
                            IF p = DownloadsA THEN a
                            ELSE IF p = DownloadsB THEN b
                            ELSE IF p = DocumentsA THEN c
                            ELSE IF p = PDFsB THEN d
                            ELSE e])
    /\ dirs = DirsOf(files)
    /\ dirRev \in BOOLEAN
    /\ is_macos \in BOOLEAN
    /\ dry_run \in BOOLEAN
    /\ ruleFiles \in StartRuleFiles
    /\ operations = <<>>
    /\ results = <<>>
    /\ nextId = 1
    /\ clock = 0
    /\ last = "init"
    /\ ret = <<>>
    /\ callNo = 0
    /\ calls = <<>>
    /\ lastCalls = <<>>
    /\ planHist = <<>>
    /\ dupIn = <<>>
    /\ dupOut = <<>>
    /\ dupRun = <<>>
    /\ callArgs = <<>>
    /\ callResult = <<>>

Next == ScanAndPlan \/ Execute

Spec == Init /\ [][Next]_vars

---------------------------------------------------------------------------
(* Properties of the Runner. *)

\* a step that is a call of execute() / of scan_and_plan()
ExecuteStep == callNo' = callNo + 1 /\ last' = "execute"
PlanStep    == callNo' = callNo + 1 /\ last' = "plan"

\* the kinds planned in ops
Kinds(ops) == {ops[i].operation_type : i \in 1..Len(ops)}

\* C1: in dry-run mode execute() returns an empty list, dispatches nothing,
\* leaves the disk as it was and leaves every Operation's executed, success
\* and error fields as planning left them.
C1_DryRunExecuteIsNoOp ==
    [][(dry_run /\ ExecuteStep) =>
          /\ ret' = <<>>
          /\ calls' = calls
          /\ lastCalls' = <<>>
          /\ files' = files
          /\ dirs' = dirs
          /\ operations' = operations]_vars

\* execute() has returned in dry-run mode with operations planned on a disk
\* they would change
C1_Witness ==
    /\ dry_run
    /\ last = "execute"
    /\ {"move", "duplicate"} \subseteq Kinds(operations)
    /\ \A i \in 1..Len(operations) : ~operations[i].executed

\* C2: scan_and_plan() leaves the disk as it is (the files, their names,
\* places, contents and tags, and the directories); of the Runner it changes
\* the pending operation list only.
C2_PlanningLeavesDiskAlone ==
    [][PlanStep =>
          /\ files' = files
          /\ dirs' = dirs
          /\ results' = results
          /\ ret' = ret
          /\ calls' = calls]_vars

\* scan_and_plan() has returned operations of all four kinds
C2_Witness ==
    /\ last = "plan"
    /\ Kinds(operations) = {"move", "rename", "tag", "duplicate"}

\* C3: in execute mode, an operation whose collaborator raised ends executed,
\* not succeeded, with the failure message as its error, and every operation
\* is dispatched, in list order, whatever happened to the ones before it.
C3_FailForward ==
    (last = "execute" /\ ~dry_run) =>
        /\ Len(lastCalls) = Len(operations)
        /\ \A i \in 1..Len(operations) :
              /\ lastCalls[i].id = operations[i].id
              /\ lastCalls[i].raised =>
                    /\ operations[i].executed
                    /\ ~operations[i].success
                    /\ operations[i].error = lastCalls[i].error
                    /\ operations[i].error # NoError

\* execute() has returned, a collaborator raised and a later operation was
\* dispatched and succeeded
C3_Witness ==
    /\ last = "execute"
    /\ ~dry_run
    /\ \E i, j \in 1..Len(lastCalls) :
          /\ i < j
          /\ lastCalls[i].raised
          /\ ~lastCalls[j].raised
          /\ operations[j].success

\* C4: in execute mode the list execute() returns holds one OperationResult
\* per planned Operation, in the same order, whether it succeeded or failed.
C4_OneResultPerOperation ==
    (last = "execute" /\ ~dry_run) =>
        /\ ret = results
        /\ Len(ret) = Len(operations)
        /\ \A k \in 1..Len(operations) : ret[k].operation = operations[k].id

\* execute() has returned results for operations that failed and operations
\* that succeeded
C4_Witness ==
    /\ last = "execute"
    /\ ~dry_run
    /\ Len(ret) >= 3
    /\ \E k \in 1..Len(operations) : ~operations[k].success
    /\ \E k \in 1..Len(operations) : operations[k].success

\* C5: no Operation object is dispatched to its collaborator more than once.
C5_DispatchedAtMostOnce ==
    \A i, j \in 1..Len(calls) : i # j => calls[i].id # calls[j].id

\* category order of scan_and_plan
KindRank(kind) ==
    IF kind = "move" THEN 1
    ELSE IF kind = "rename" THEN 2
    ELSE IF kind = "tag" THEN 3
    ELSE 4

\* position in s of the first element equal to x, 0 when there is none
IndexOf(s, x) ==
    IF \E i \in 1..Len(s) : s[i] = x
    THEN CHOOSE i \in 1..Len(s) : s[i] = x /\ \A j \in 1..(i - 1) : s[j] # x
    ELSE 0

\* the rules of an operation's kind, as loaded
RulesOfKind(kind) ==
    IF kind = "move" THEN load_all_rules.move
    ELSE IF kind = "rename" THEN load_all_rules.rename
    ELSE IF kind = "tag" THEN load_all_rules.tag
    ELSE load_all_rules.duplicate

\* position of the operation's rule in its rule file
RuleIndex(op) ==
    LET rules == RulesOfKind(op.operation_type)
    IN  CHOOSE i \in 1..Len(rules) : rules[i].name = op.rule_name

\* position of the operation's source in the scan its rule makes
ScanIndex(op) ==
    IF op.operation_type = "move"
    THEN IndexOf(_scan_directory(files, dirs,
                     RulesOfKind("move")[RuleIndex(op)].condition.path), op.source)
    ELSE IF op.operation_type = "duplicate"
    THEN IndexOf(ScanAll(files, dirs, DuplicateScanPaths), op.source)
    ELSE IndexOf(ScanAll(files, dirs, CommonScanPaths), op.source)

\* C6: in the list scan_and_plan() returns, moves come before renames, renames
\* before tags, tags before duplicates; within a kind, operations of an
\* earlier-declared rule come first; within a rule, operations are in scan order.
C6_PlanningOrder ==
    last = "plan" =>
        \A i, j \in 1..Len(operations) :
            i < j =>
                /\ KindRank(operations[i].operation_type)
                      <= KindRank(operations[j].operation_type)
                /\ operations[i].operation_type = operations[j].operation_type =>
                      /\ RuleIndex(operations[i]) <= RuleIndex(operations[j])
                      /\ RuleIndex(operations[i]) = RuleIndex(operations[j]) =>
                            /\ ScanIndex(operations[i]) > 0
                            /\ ScanIndex(operations[i]) < ScanIndex(operations[j])

\* a plan with all four kinds, two rules of one kind and two operations of
\* one rule
C6_Witness ==
    /\ last = "plan"
    /\ Kinds(operations) = {"move", "rename", "tag", "duplicate"}
    /\ \E i, j \in 1..Len(operations) :
          /\ operations[i].operation_type = operations[j].operation_type
          /\ operations[i].rule_name # operations[j].rule_name
    /\ \E i, j \in 1..Len(operations) :
          /\ i # j
          /\ operations[i].rule_name = operations[j].rule_name

\* C7: two scan_and_plan() calls that saw the same disk returned equal
\* operation sequences (kinds, rule names, sources and details, in order): a
\* later call replaces the pending list, it does not append to it.
C7_PlanningRepeats ==
    \A i, j \in 1..Len(planHist) :
        (planHist[i].files = planHist[j].files /\ planHist[i].dirs = planHist[j].dirs)
            => planHist[i].operations = planHist[j].operations

\* scan_and_plan() was called twice on the same disk and planned operations
C7_Witness ==
    /\ Len(planHist) >= 2
    /\ planHist[1].files = planHist[2].files
    /\ planHist[1].dirs = planHist[2].dirs
    /\ Len(planHist[2].operations) >= 2
    /\ last = "plan"

---------------------------------------------------------------------------
(* The Deduplicator called on its own: find_duplicates on a list of paths,
   then handle_duplicates on one of the groups it returned. *)

\* what each place may hold when find_duplicates is called
HarnessOptions(p) ==
    IF p = DownloadsA THEN {Absent} \cup {File(ContentX, m) : m \in 1..MaxMtime}
    ELSE IF p = DownloadsB
    THEN {Absent} \cup {[File(ContentX, m) EXCEPT !.locked = l] :
                            m \in 1..MaxMtime, l \in BOOLEAN}
    ELSE IF p = DocumentsA
    THEN {Absent, [File(ContentX, 1) EXCEPT !.readable = FALSE]}
            \cup {File(c, m) : c \in {ContentX, ContentY}, m \in 1..MaxMtime}
    ELSE IF p = PDFsB THEN {Absent, File(ContentY, 2)}
    ELSE {Absent}

\* the orders the four places are listed in
HarnessLists ==
    { <<DownloadsA, DownloadsB, DocumentsA, PDFsB>>,
      <<PDFsB, DocumentsA, DownloadsB, DownloadsA>>,
      <<DownloadsB, PDFsB, DownloadsA, DocumentsA>>,
      <<DocumentsA, DownloadsA, PDFsB, DownloadsB>> }

NoRuleFiles == [move |-> <<>>, rename |-> <<>>, tag |-> <<>>, duplicate |-> <<>>]

InitDedup ==
    /\ \E a \in HarnessOptions(DownloadsA), b \in HarnessOptions(DownloadsB),
          c \in HarnessOptions(DocumentsA), d \in HarnessOptions(PDFsB) :
            files = Disk([p \in StartPlaces |->
                            IF p = DownloadsA THEN a
                            ELSE IF p = DownloadsB THEN b
                            ELSE IF p = DocumentsA THEN c
                            ELSE IF p = PDFsB THEN d
                            ELSE Absent])
    /\ dirs = DirsOf(files)
    /\ dirRev = FALSE
    /\ is_macos \in BOOLEAN
    /\ dry_run = FALSE
    /\ ruleFiles = NoRuleFiles
    /\ operations = <<>>
    /\ results = <<>>
    /\ nextId = 1
    /\ clock = 0
    /\ last = "init"
    /\ ret = <<>>
    /\ callNo = 0
    /\ calls = <<>>
    /\ lastCalls = <<>>
    /\ planHist = <<>>
    /\ dupIn \in HarnessLists
    /\ dupOut = <<>>
    /\ dupRun = <<>>
    /\ callArgs = <<>>
    /\ callResult = <<>>

\* groups = deduplicator.find_duplicates(dupIn, check_by)
FindDuplicates ==
    /\ dupOut = <<>>
    /\ \E check_by \in {"content", "name"} :
          dupOut' = <<[check_by |-> check_by,
                       groups   |-> find_duplicates(files, dupIn, check_by)]>>
    /\ UNCHANGED <<files, dirs, dirRev, is_macos, dry_run, ruleFiles, dupIn, dupRun>>
    /\ UNCHANGED runnerVars
    /\ UNCHANGED callVars

\* the disk and the harness after a call of handle_duplicates that left hd
Handled(group, keep, tag_duplicates, hd) ==
    /\ files' = hd.fs
    /\ dupRun' = <<[group |-> group, keep |-> keep, tag_duplicates |-> tag_duplicates,
                    before |-> files, error |-> hd.error, kept |-> hd.kept,
                    trashed |-> hd.trashed, tagged |-> hd.tagged]>>

\* deduplicator.handle_duplicates(group, keep, tag_duplicates, label)
HandleDuplicates ==
    /\ dupOut # <<>>
    /\ dupRun = <<>>
    /\ \E g \in 1..Len(dupOut[1].groups), keep \in {"newest", "oldest", "first"},
          tag_duplicates \in BOOLEAN :
            Handled(dupOut[1].groups[g], keep, tag_duplicates,
                    handle_duplicates(files, dirs, dupOut[1].groups[g], keep,
                                      tag_duplicates, DefaultDuplicateLabel))
    /\ UNCHANGED <<dirs, dirRev, is_macos, dry_run, ruleFiles, dupIn, dupOut>>
    /\ UNCHANGED runnerVars
    /\ UNCHANGED callVars

NextDedup == FindDuplicates \/ HandleDuplicates

SpecDedup == InitDedup /\ [][NextDedup]_vars

---------------------------------------------------------------------------
(* Properties of the Deduplicator. *)

\* the elements of a sequence
Range(s) == {s[i] : i \in 1..Len(s)}

\* the paths of dupIn that find_duplicates considers: all of them by name,
\* the regular files it can read by content
Considered(check_by) ==
    IF check_by = "name" THEN Range(dupIn)
    ELSE {p \in Range(dupIn) : p \in DOMAIN files /\ files[p].readable}

\* two considered paths share the grouping key
SameKey(check_by, p, q) ==
    IF check_by = "name" THEN PathName(p) = PathName(q)
    ELSE files[p].content = files[q].content

\* C8: find_duplicates returns exactly the classes of considered files that
\* share the grouping key and have 2 or more members: two files with the same
\* key are in one group, no group has fewer than 2 members, no file is in
\* two groups.
C8_DuplicateGroups ==
    (dupOut # <<>> /\ dupRun = <<>>) =>
        LET check_by == dupOut[1].check_by
            groups   == dupOut[1].groups
        IN  /\ \A g \in 1..Len(groups) :
                  /\ Len(groups[g]) >= 2
                  /\ Cardinality(Range(groups[g])) = Len(groups[g])
                  /\ Range(groups[g]) \subseteq Considered(check_by)
                  /\ \A p, q \in Range(groups[g]) : SameKey(check_by, p, q)
            /\ \A g, h \in 1..Len(groups) :
                  g # h => Range(groups[g]) \cap Range(groups[h]) = {}
            /\ \A p, q \in Considered(check_by) :
                  (p # q /\ SameKey(check_by, p, q)) =>
                      \E g \in 1..Len(groups) : {p, q} \subseteq Range(groups[g])

\* find_duplicates by content on four files has returned two groups
C8_Witness ==
    /\ dupOut # <<>>
    /\ dupRun = <<>>
    /\ dupOut[1].check_by = "content"
    /\ Len(dupOut[1].groups) = 2
    /\ DOMAIN files = Range(dupIn)

\* C9: for a group of 2 or more files on disk, keep = "newest" keeps a file
\* whose modification time is the largest of the group, keep = "oldest" one
\* whose modification time is the smallest, keep = "first" the first element
\* whatever the times.
C9_KeepPolicy ==
    (dupRun # <<>> /\ Len(dupRun[1].group) >= 2) =>
        LET run    == dupRun[1]
            before == run.before
        IN  /\ run.keep = "first" => run.kept = <<run.group[1]>>
            /\ (run.keep # "first" /\ Range(run.group) \subseteq DOMAIN before) =>
                  /\ run.error = NoError
                  /\ Len(run.kept) = 1
                  /\ run.kept[1] \in Range(run.group)
                  /\ run.kept[1] \in DOMAIN files
                  /\ run.keep = "newest" =>
                        \A p \in Range(run.group) :
                            before[p].mtime <= before[run.kept[1]].mtime
                  /\ run.keep = "oldest" =>
                        \A p \in Range(run.group) :
                            before[p].mtime >= before[run.kept[1]].mtime

\* three files modified at 1, 3 and 2, in that order, keep = "newest": the
\* second was kept and the two others are gone
C9_Witness ==
    /\ dupRun # <<>>
    /\ dupRun[1].keep = "newest"
    /\ ~dupRun[1].tag_duplicates
    /\ Len(dupRun[1].group) = 3
    /\ Range(dupRun[1].group) \subseteq DOMAIN dupRun[1].before
    /\ dupRun[1].before[dupRun[1].group[1]].mtime = 1
    /\ dupRun[1].before[dupRun[1].group[2]].mtime = 3
    /\ dupRun[1].before[dupRun[1].group[3]].mtime = 2
    /\ dupRun[1].kept = <<dupRun[1].group[2]>>
    /\ dupRun[1].group[1] \notin DOMAIN files
    /\ dupRun[1].group[3] \notin DOMAIN files

\* C10: handle_duplicates on a group of 2 or more files leaves the kept file
\* as it was; with tag_duplicates it removes nothing and changes only the tags
\* of the other files of the group; without it, it hands every other file of
\* the group to the removal, and every one of them that can be removed is
\* gone, whichever removals failed.
C10_Disposal ==
    (dupRun # <<>> /\ Len(dupRun[1].group) >= 2 /\ dupRun[1].kept # <<>>) =>
        LET run    == dupRun[1]
            before == run.before
            kept   == run.kept[1]
            others == Range(run.group) \ {kept}
            IsOther(p) == p # kept
        IN  /\ kept \in DOMAIN before =>
                  (kept \in DOMAIN files /\ files[kept] = before[kept])
            /\ \A p \in DOMAIN before \ others :
                  (p \in DOMAIN files /\ files[p] = before[p])
            /\ DOMAIN files \subseteq DOMAIN before
            /\ \A p \in DOMAIN files :
                  [files[p] EXCEPT !.tags = before[p].tags] = before[p]
            /\ run.tag_duplicates =>
                  /\ DOMAIN files = DOMAIN before
                  /\ run.trashed = <<>>
                  /\ run.tagged = SelectSeq(run.group, IsOther)
            /\ ~run.tag_duplicates =>
                  /\ run.trashed = SelectSeq(run.group, IsOther)
                  /\ run.tagged = <<>>
                  /\ \A p \in DOMAIN files : files[p] = before[p]
                  /\ \A p \in others :
                        (p \in DOMAIN before /\ ~before[p].locked) =>
                            p \notin DOMAIN files

\* a removal failed on a locked file and the file after it in the group was
\* removed all the same
C10_Witness ==
    /\ dupRun # <<>>
    /\ ~dupRun[1].tag_duplicates
    /\ dupRun[1].kept # <<>>
    /\ \E i, j \in 1..Len(dupRun[1].trashed) :
          /\ i < j
          /\ dupRun[1].trashed[i] \in DOMAIN files
          /\ dupRun[1].trashed[j] \in DOMAIN dupRun[1].before
          /\ dupRun[1].trashed[j] \notin DOMAIN files

---------------------------------------------------------------------------
(* parser.py: parse_size, parse_condition, parse_action, parse_rule and
   _load_rules on the entries as the YAML file gives them.  A call returns
   [error, value]: error is the exception it raised, NoError when it
   returned value. *)

\* str.upper(), one character
UpperChar(c) ==
    IF \E i \in 1..26 : LowerChars[i] = c
    THEN UpperChars[CHOOSE i \in 1..26 : LowerChars[i] = c]
    ELSE c

\* str.upper()
Upper(s) == [i \in 1..Len(s) |-> UpperChar(s[i])]

\* str.strip(): the strings here hold no white space but the blank
StripSpaces(s) == RStrip(LStrip(s, " "), " ")

\* str.endswith(suf)
EndsWith(s, suf) ==
    /\ Len(suf) <= Len(s)
    /\ SubSeq(s, Len(s) - Len(suf) + 1, Len(s)) = suf

DigitChars == <<"0","1","2","3","4","5","6","7","8","9">>

DigitValue(c) == (CHOOSE i \in 1..10 : DigitChars[i] = c) - 1

IsDigits(s) == s # <<>> /\ \A i \in 1..Len(s) : s[i] \in Digits

\* the number a string of decimal digits writes (0 for the empty string)
RECURSIVE IntValue(_)
IntValue(s) ==
    IF s = <<>> THEN 0
    ELSE 10 * IntValue(SubSeq(s, 1, Len(s) - 1)) + DigitValue(s[Len(s)])

RECURSIVE Pow10(_)
Pow10(n) == IF n = 0 THEN 1 ELSE 10 * Pow10(n - 1)

\* a leading sign taken off: [sign, body]
Unsigned(t) ==
    IF t # <<>> /\ t[1] = "-" THEN [sign |-> -1, body |-> Tail(t)]
    ELSE IF t # <<>> /\ t[1] = "+" THEN [sign |-> 1, body |-> Tail(t)]
    ELSE [sign |-> 1, body |-> t]

\* float(text) for texts without exponent or underscore: the number num/den,
\* an infinity, a NaN, or ValueError
PyFloat(text) ==
    LET u    == Unsigned(StripSpaces(text))
        body == u.body
        dot  == RFind(body, ".")
        ip   == SubSeq(body, 1, dot - 1)
        fp   == SubSeq(body, dot + 1, Len(body))
        word == Upper(body)
    IN  IF IsDigits(body)
        THEN [kind |-> "value", num |-> u.sign * IntValue(body), den |-> 1]
        ELSE IF /\ dot > 0
                /\ ip \o fp # <<>>
                /\ \A i \in 1..Len(ip) : ip[i] \in Digits
                /\ \A i \in 1..Len(fp) : fp[i] \in Digits
        THEN [kind |-> "value", num |-> u.sign * IntValue(ip \o fp),
              den |-> Pow10(Len(fp))]
        ELSE IF word \in {<<"I","N","F">>, <<"I","N","F","I","N","I","T","Y">>}
        THEN [kind |-> "inf", num |-> 0, den |-> 1]
        ELSE IF word = <<"N","A","N">> THEN [kind |-> "nan", num |-> 0, den |-> 1]
        ELSE [kind |-> "ValueError", num |-> 0, den |-> 1]

\* int(text) for texts without underscore
PyInt(text) ==
    LET u == Unsigned(StripSpaces(text))
    IN  IF IsDigits(u.body)
        THEN [kind |-> "value", num |-> u.sign * IntValue(u.body)]
        ELSE [kind |-> "ValueError", num |-> 0]

\* int(x) of the number num/den: the fraction is cut off
Truncate(num, den) == IF num >= 0 THEN num \div den ELSE -((-num) \div den)

\* lines 93-99: the units, in the order the dict yields them
Units == << <<"B">>, <<"K","B">>, <<"M","B">>, <<"G","B">>, <<"T","B">> >>

\* lines 93-99: the multiplier of the i-th unit
RECURSIVE Multiplier(_)
Multiplier(i) == IF i = 1 THEN 1 ELSE 1024 * Multiplier(i - 1)

\* lines 106-110: the string read as a number of bytes
RawBytes(size_str) ==
    LET n == PyInt(size_str)
    IN  [error |-> NoError, value |-> IF n.kind = "value" THEN n.num ELSE 0]

\* the first unit, in the order of the dict, that size_str ends with; 0 if none
FirstUnit(size_str) ==
    IF \E i \in 1..Len(Units) : EndsWith(size_str, Units[i])
    THEN CHOOSE i \in 1..Len(Units) :
            /\ EndsWith(size_str, Units[i])
            /\ \A j \in 1..(i - 1) : ~EndsWith(size_str, Units[j])
    ELSE 0

\* lines 100-105 for the unit found: int(float(...) * multiplier), the
\* ValueError of float() or of int(nan) caught, the OverflowError of
\* int(inf) not
WithUnit(size_str, i, f) ==
    IF f.kind = "value"
    THEN [error |-> NoError, value |-> Truncate(f.num * Multiplier(i), f.den)]
    ELSE IF f.kind = "inf" THEN [error |-> "OverflowError", value |-> 0]
    ELSE RawBytes(size_str)

\* parse_size
ParseUpper(size_str, i) ==
    IF i = 0 THEN RawBytes(size_str)
    ELSE WithUnit(size_str, i,
                  PyFloat(SubSeq(size_str, 1, Len(size_str) - Len(Units[i]))))

parse_size(size_str) ==
    ParseUpper(Upper(StripSpaces(size_str)), FirstUnit(Upper(StripSpaces(size_str))))

\* What yaml.safe_load gives for a rule entry and its parts.  kind tells a
\* mapping from a value that is none ("scalar": a string, a number, a list,
\* null) and from a key that is not there ("missing").  A size is missing, an
\* int or a str.
RawSize(kind, int, str) == [kind |-> kind, int |-> int, str |-> str]

NoSize == RawSize("missing", 0, <<>>)

RawCondition(kind, c, size_gt, size_lt) ==
    [kind |-> kind, path |-> c.path, extension |-> c.extension,
     pattern |-> c.pattern, name_pattern |-> c.name_pattern,
     size_gt |-> size_gt, size_lt |-> size_lt]

\* separator is <<>> when the key is missing, <<s>> when it is s
RawAction(kind, a, separator) ==
    [kind |-> kind, move |-> a.move, create_if_missing |-> a.create_if_missing,
     rename |-> a.rename, replace |-> a.replace, prefix |-> a.prefix,
     suffix |-> a.suffix, separator |-> separator, tag |-> a.tag]

\* name is <<>> when the key is missing, <<n>> when it is n
RawEntry(kind, name, condition, action, enabled) ==
    [kind |-> kind, name |-> name, condition |-> condition, action |-> action,
     enabled |-> enabled]

\* lines 115-121: a size bound of the condition
ParsedSize(raw) ==
    IF raw.kind = "str"
    THEN LET r == parse_size(raw.str)
         IN  [error |-> r.error, value |-> <<r.value>>]
    ELSE IF raw.kind = "int" THEN [error |-> NoError, value |-> <<raw.int>>]
    ELSE [error |-> NoError, value |-> <<>>]

\* lines 123-130
ConditionOf(cond_data, gt, lt) ==
    IF gt.error # NoError THEN [error |-> gt.error, value |-> <<>>]
    ELSE IF lt.error # NoError THEN [error |-> lt.error, value |-> <<>>]
    ELSE [error |-> NoError,
          value |-> [path |-> cond_data.path, extension |-> cond_data.extension,
                     pattern |-> cond_data.pattern, size_gt |-> gt.value,
                     size_lt |-> lt.value, name_pattern |-> cond_data.name_pattern]]

\* parse_condition; cond_data.get raises AttributeError when cond_data is no
\* mapping, and a missing condition is the empty mapping (line 152)
parse_condition(cond_data) ==
    IF cond_data.kind = "scalar" THEN [error |-> "AttributeError", value |-> <<>>]
    ELSE IF cond_data.kind = "missing"
    THEN [error |-> NoError,
          value |-> [path |-> <<>>, extension |-> <<>>, pattern |-> <<>>,
                     size_gt |-> <<>>, size_lt |-> <<>>, name_pattern |-> <<>>]]
    ELSE ConditionOf(cond_data, ParsedSize(cond_data.size_gt),
                     ParsedSize(cond_data.size_lt))

\* parse_action
parse_action(action_data) ==
    IF action_data.kind = "scalar" THEN [error |-> "AttributeError", value |-> <<>>]
    ELSE IF action_data.kind = "missing"
    THEN [error |-> NoError,
          value |-> [move |-> <<>>, create_if_missing |-> FALSE, rename |-> <<>>,
                     replace |-> <<>>, prefix |-> <<>>, suffix |-> <<>>,
                     separator |-> <<"-">>, tag |-> <<>>]]
    ELSE [error |-> NoError,
          value |-> [move |-> action_data.move,
                     create_if_missing |-> action_data.create_if_missing,
                     rename |-> action_data.rename, replace |-> action_data.replace,
                     prefix |-> action_data.prefix, suffix |-> action_data.suffix,
                     separator |-> IF action_data.separator = <<>> THEN <<"-">>
                                   ELSE action_data.separator[1],
                     tag |-> action_data.tag]]

\* lines 150-155, condition and action parsed
RuleOf(rule_data, c, a) ==
    IF c.error # NoError THEN [error |-> c.error, value |-> <<>>]
    ELSE IF a.error # NoError THEN [error |-> a.error, value |-> <<>>]
    ELSE [error |-> NoError,
          value |-> [name |-> IF rule_data.name = <<>> THEN "Unnamed Rule"
                              ELSE rule_data.name[1],
                     enabled |-> rule_data.enabled,
                     condition |-> c.value, action |-> a.value]]

\* parse_rule
parse_rule(rule_data) ==
    IF rule_data.kind # "mapping" THEN [error |-> "AttributeError", value |-> <<>>]
    ELSE RuleOf(rule_data, parse_condition(rule_data.condition),
                parse_action(rule_data.action))

\* lines 200-204: one turn of the loop.  The handler of line 204 calls
\* rule_data.get itself, which raises when rule_data is no mapping.
LoadOne(st, rule_data, parsed) ==
    IF st.error # NoError THEN st
    ELSE IF parsed.error = NoError
    THEN [st EXCEPT !.value = Append(@, parsed.value)]
    ELSE IF rule_data.kind # "mapping" THEN [st EXCEPT !.error = "AttributeError"]
    ELSE st

\* lines 199-204: the loop over the first n entries
RECURSIVE LoadLoop(_, _)
LoadLoop(entries, n) ==
    IF n = 0 THEN [error |-> NoError, value |-> <<>>]
    ELSE LoadOne(LoadLoop(entries, n - 1), entries[n], parse_rule(entries[n]))

\* line 206 on what the loop left
EnabledOnly(st) ==
    IF st.error # NoError THEN [error |-> st.error, value |-> <<>>]
    ELSE [error |-> NoError, value |-> LoadRules(st.value)]

\* RuleParser._load_rules with parser = parse_rule, on the 'rules' list of the
\* file (empty when the file does not exist)
_load_rules(entries) == EnabledOnly(LoadLoop(entries, Len(entries)))

---------------------------------------------------------------------------
(* The functions of parser.py called on their own: callArgs holds the
   arguments of one call, callResult what the call gave. *)

\* the Runner not started, no rule file, nothing on disk
Idle ==
    /\ files = Disk([p \in StartPlaces |-> Absent])
    /\ dirs = {Home, DownloadsDir, DocumentsDir, DesktopDir}
    /\ dirRev = FALSE
    /\ is_macos = FALSE
    /\ dry_run = FALSE
    /\ ruleFiles = NoRuleFiles
    /\ operations = <<>>
    /\ results = <<>>
    /\ nextId = 1
    /\ clock = 0
    /\ last = "init"
    /\ ret = <<>>
    /\ callNo = 0
    /\ calls = <<>>
    /\ lastCalls = <<>>
    /\ planHist = <<>>
    /\ dupIn = <<>>
    /\ dupOut = <<>>
    /\ dupRun = <<>>

\* the digit strings tried
DigitTexts == UNION {[1..k -> {"0", "1", "2"}] : k \in 1..MaxDigits}

\* what stands before the unit in the size strings tried
NumberTexts ==
    DigitTexts \cup {<<>>, <<"1",".","5">>, <<".","5">>, <<"x">>,
                     <<"i","n","f">>, <<"n","a","n">>}

\* what stands at the end of the size strings tried
UnitTexts ==
    {Units[i] : i \in 1..Len(Units)}
        \cup {<<>>, <<"k","b">>, <<"M","b">>, <<"K">>, <<"X","B">>}

SizeStrings ==
    {l \o n \o u \o r : l \in {<<>>, <<" ">>}, n \in NumberTexts, u \in UnitTexts,
                        r \in {<<>>, <<" ">>}}

\* the size bounds tried
SizeBounds == {<<>>} \cup {<<n>> : n \in 0..MaxSize}

NamePJpg == <<"p",".","J","P","G">>
NameDPdf == <<"d",".","p","d","f">>
NameNoext == <<"d","o","c">>

\* the files the conditions are tried on
MatchPaths ==
    {Join(DownloadsDir, NamePJpg), Join(DocumentsDir, NameDPdf), DownloadsA,
     Join(DesktopDir, NameNoext)}

\* the rule entries a file may hold: well-formed and enabled, well-formed and
\* disabled, with a string size, with a condition that is no mapping, with an
\* action that is no mapping, and an entry that is no mapping
RawOf(rule, size_gt) ==
    RawEntry("mapping", <<rule.name>>,
             RawCondition("mapping", rule.condition, size_gt, NoSize),
             RawAction("mapping", rule.action, <<rule.action.separator>>),
             rule.enabled)

RawEntries ==
    { RawOf(MovePdf, NoSize),
      RawOf(TagDisabled, NoSize),
      RawOf(RenamePrefix, RawSize("str", 0, <<"1","0","B">>)),
      RawEntry("mapping", <<"bad-condition">>,
               RawCondition("scalar", Condition(<<>>, <<>>, <<>>), NoSize, NoSize),
               RawAction("missing", NoAction, <<>>), TRUE),
      RawEntry("mapping", <<>>,
               RawCondition("missing", Condition(<<>>, <<>>, <<>>), NoSize, NoSize),
               RawAction("scalar", NoAction, <<>>), TRUE),
      RawEntry("scalar", <<>>,
               RawCondition("missing", Condition(<<>>, <<>>, <<>>), NoSize, NoSize),
               RawAction("missing", NoAction, <<>>), TRUE) }

InitParser ==
    /\ Idle
    /\ callResult = <<>>
    /\ \/ \E size_str \in SizeStrings :
             callArgs = <<[fn |-> "parse_size", size_str |-> size_str]>>
       \/ \E size_str \in SizeStrings, st \in SizeBounds, which \in {"size_gt", "size_lt"} :
             callArgs = <<[fn |-> "parse_condition", size_str |-> size_str,
                           which |-> which, file_path |-> DownloadsA, stat |-> st]>>
       \/ \E path \in {<<>>, TildeDownloads, DocumentsDir},
             extension \in {<<>>, << <<"j","p","g">>, <<"p","n","g">> >>,
                            << <<".","P","D","F">> >>},
             name_pattern \in {<<>>, <<"p">>}, pattern \in {<<>>, <<"d">>},
             size_gt \in SizeBounds, size_lt \in SizeBounds,
             file_path \in MatchPaths, st \in SizeBounds :
             callArgs = <<[fn |-> "matches",
                           condition |-> [path |-> path, extension |-> extension,
                                          pattern |-> pattern, size_gt |-> size_gt,
                                          size_lt |-> size_lt,
                                          name_pattern |-> name_pattern],
                           file_path |-> file_path, stat |-> st]>>
       \/ \E k \in 0..MaxEntries : \E entries \in [1..k -> RawEntries] :
             callArgs = <<[fn |-> "_load_rules", entries |-> entries]>>

\* everything but callResult stays
OnlyResult ==
    /\ UNCHANGED <<files, dirs, dirRev, is_macos, dry_run, ruleFiles, callArgs>>
    /\ UNCHANGED runnerVars
    /\ UNCHANGED dedupVars

\* parse_size(size_str)
ParseSize ==
    /\ callResult = <<>>
    /\ callArgs[1].fn = "parse_size"
    /\ callResult' = <<parse_size(callArgs[1].size_str)>>
    /\ OnlyResult

\* the condition read from a mapping whose only key is size_gt or size_lt
SizeOnly(which, size_str) ==
    parse_condition(
        RawCondition("mapping", Condition(<<>>, <<>>, <<>>),
                     IF which = "size_gt" THEN RawSize("str", 0, size_str) ELSE NoSize,
                     IF which = "size_lt" THEN RawSize("str", 0, size_str) ELSE NoSize))

\* what parse_condition gave, and whether the condition matches the file
Matched(c, file_path, st) ==
    [error |-> c.error, value |-> c.value,
     matched |-> IF c.error = NoError THEN matches(c.value, file_path, st) ELSE FALSE]

\* parse_condition({which: size_str}).matches(file_path)
ParseCondition ==
    /\ callResult = <<>>
    /\ callArgs[1].fn = "parse_condition"
    /\ callResult' = <<Matched(SizeOnly(callArgs[1].which, callArgs[1].size_str),
                               callArgs[1].file_path, callArgs[1].stat)>>
    /\ OnlyResult

\* condition.matches(file_path)
Matches ==
    /\ callResult = <<>>
    /\ callArgs[1].fn = "matches"
    /\ callResult' = <<[error |-> NoError,
                        value |-> matches(callArgs[1].condition, callArgs[1].file_path,
                                          callArgs[1].stat)]>>
    /\ OnlyResult

\* parser._load_rules(filename, parse_rule)
LoadRulesFile ==
    /\ callResult = <<>>
    /\ callArgs[1].fn = "_load_rules"
    /\ callResult' = <<_load_rules(callArgs[1].entries)>>
    /\ OnlyResult

NextParser == ParseSize \/ ParseCondition \/ Matches \/ LoadRulesFile

SpecParser == InitParser /\ [][NextParser]_vars

---------------------------------------------------------------------------
(* Properties of parser.py. *)

\* a call of fn has returned or raised
Called(fn) == callResult # <<>> /\ callArgs[1].fn = fn

\* the extension of a file name or of a rule, compared without case and
\* without the leading dot
BareExtension(e) == Lower(LStrip(e, "."))

\* the conjunction of the checks of the fields of c that are set, on a file
\* of size st[1]
FieldChecks(c, p, st) ==
    /\ c.path # <<>> => StartsWith(p, ExpandUser(c.path))
    /\ c.extension # <<>> =>
          \E i \in 1..Len(c.extension) :
              BareExtension(c.extension[i]) = BareExtension(NameSuffix(PathName(p)))
    /\ c.name_pattern # <<>> => Contains(PathName(p), c.name_pattern)
    /\ c.pattern # <<>> => Contains(PathName(p), c.pattern)
    /\ c.size_gt # <<>> => st[1] > c.size_gt[1]
    /\ c.size_lt # <<>> => st[1] < c.size_lt[1]

\* C11: on a file whose size can be read, Condition.matches equals the
\* conjunction of the checks of all set fields (path prefix, extension
\* membership without case, name_pattern search, pattern search, size bounds),
\* unset fields being skipped.
C11_MatchesIsConjunction ==
    (Called("matches") /\ callArgs[1].stat # <<>>) =>
        callResult[1].value =
            FieldChecks(callArgs[1].condition, callArgs[1].file_path, callArgs[1].stat)

\* the digits of n in base 1024, lowest first
RECURSIVE Base1024(_)
Base1024(n) == IF n = 0 THEN <<>> ELSE <<n % 1024>> \o Base1024(n \div 1024)

\* the digits of n * 1024^k, given those of n
RECURSIVE Times1024(_, _)
Times1024(digits, k) ==
    IF k = 0 \/ digits = <<>> THEN digits ELSE <<0>> \o Times1024(digits, k - 1)

\* C12: for a size string <number><unit>, the unit being the k+1-th of B, KB,
\* MB, GB, TB, parse_size returns number * 1024^k.
C12_ParseSizeUnits ==
    Called("parse_size") =>
        \A i \in 1..Len(Units) :
            LET size_str == callArgs[1].size_str
                number   == SubSeq(size_str, 1, Len(size_str) - Len(Units[i]))
            IN  (EndsWith(size_str, Units[i]) /\ IsDigits(number)) =>
                    /\ callResult[1].error = NoError
                    /\ callResult[1].value >= 0
                    /\ Base1024(callResult[1].value)
                          = Times1024(Base1024(IntValue(number)), i - 1)

\* digits, with or without a decimal point among them
IsNumber(n) ==
    \/ IsDigits(n)
    \/ /\ Cardinality({i \in 1..Len(n) : n[i] = "."}) = 1
       /\ Len(n) > 1
       /\ \A i \in 1..Len(n) : n[i] \in Digits \cup {"."}

\* a number, or a number and a unit, white space around it and case aside
Parseable(size_str) ==
    LET t == Upper(StripSpaces(size_str))
    IN  \/ IsNumber(t)
        \/ \E i \in 1..Len(Units) :
              /\ EndsWith(t, Units[i])
              /\ IsNumber(SubSeq(t, 1, Len(t) - Len(Units[i])))

\* C13: for an unparseable size string parse_size returns 0 and raises
\* nothing, and a condition whose size_gt or size_lt was read from such a
\* string has the bound 0 and matches files of every size.
C13_UnparseableIsZero ==
    (callResult # <<>> /\ callArgs[1].fn \in {"parse_size", "parse_condition"}
                       /\ ~Parseable(callArgs[1].size_str)) =>
        /\ callResult[1].error = NoError
        /\ callArgs[1].fn = "parse_size" => callResult[1].value = 0
        /\ callArgs[1].fn = "parse_condition" =>
              /\ callResult[1].value[callArgs[1].which] = <<0>>
              /\ callArgs[1].stat # <<>> => callResult[1].matched

\* C14: when a size bound is set, a bound of 0 included, and the stat of the
\* file fails, matches returns false and raises nothing.
C14_SizeCheckFailsClosed ==
    (Called("matches") /\ callArgs[1].stat = <<>>
        /\ (callArgs[1].condition.size_gt # <<>> \/ callArgs[1].condition.size_lt # <<>>)) =>
        /\ callResult[1].error = NoError
        /\ callResult[1].value = FALSE

\* an entry parse_rule can read: a mapping whose condition and action, when
\* there, are mappings
WellFormed(e) ==
    e.kind = "mapping" /\ e.condition.kind # "scalar" /\ e.action.kind # "scalar"

\* C19: whatever malformed entries stand in the 'rules' list, entries that are
\* no mappings included, _load_rules raises nothing and returns exactly the
\* well-formed enabled entries, in declared order.
C19_LoadIsEntryIsolated ==
    Called("_load_rules") =>
        LET Wanted(e) == WellFormed(e) /\ e.enabled
            wanted    == SelectSeq(callArgs[1].entries, Wanted)
            loaded    == callResult[1].value
        IN  /\ callResult[1].error = NoError
            /\ Len(loaded) = Len(wanted)
            /\ \A i \in 1..Len(wanted) :
                  /\ <<loaded[i].name>> = wanted[i].name
                  /\ loaded[i].enabled

---------------------------------------------------------------------------
(* Properties of the move, tag and duplicate operations of the Runner.  Each
   entry of calls is one dispatch: the operation, whether its collaborator
   raised, and the disk before and after. *)

\* where Mover.move puts the file of dispatch e: inside the destination when
\* that is a directory at the time of the move
FinalDestination(e) ==
    IF e.op.details.destination \in e.dirsAfter
    THEN Join(e.op.details.destination, PathName(e.op.source))
    ELSE e.op.details.destination

\* nothing of the disk stands in the way of the move of dispatch e: the
\* source is a file that may be renamed, no file sits where the destination
\* directory or one of its parents has to be, no locked file at the target
Movable(e) ==
    /\ e.op.source \in DOMAIN e.before
    /\ ~e.before[e.op.source].locked
    /\ e.op.details.destination \notin DOMAIN e.before
    /\ \A i \in 1..Len(Ancestors(e.op.details.destination)) :
          Ancestors(e.op.details.destination)[i] \notin DOMAIN e.before
    /\ \A p \in DOMAIN e.before :
          p = Join(e.op.details.destination, PathName(e.op.source)) =>
              ~e.before[p].locked

\* the move rules C15 speaks of: a path scope and create_if_missing
ScopedMoveRules ==
    {r \in Range(load_all_rules.move) :
        r.condition.path # <<>> /\ r.action.create_if_missing}

\* the operations of plan h that rule r planned for file p
PlannedFor(h, r, p) ==
    {i \in 1..Len(h.operations) :
        /\ h.operations[i].operation_type = "move"
        /\ h.operations[i].rule_name = r.name
        /\ h.operations[i].source = p}

\* C15: for a move rule with a path scope, a destination D and
\* create_if_missing, each file under the scope that matches the condition
\* yields exactly one move Operation, with destination D; executing it
\* creates D if absent and leaves the file at D/<name>, the source path no
\* longer existing.
C15_MovePlanAndEffect ==
    /\ \A n \in 1..Len(planHist) : \A r \in ScopedMoveRules :
          \A p \in DOMAIN planHist[n].files :
              (/\ Under(p, ExpandUser(r.condition.path))
               /\ matches(r.condition, p, StatSize(planHist[n].files, p))) =>
                  /\ Cardinality(PlannedFor(planHist[n], r, p)) = 1
                  /\ \A i \in PlannedFor(planHist[n], r, p) :
                        planHist[n].operations[i].details.destination
                            = ExpandUser(r.action.move)
    /\ \A n \in 1..Len(calls) :
          (/\ calls[n].op.operation_type = "move"
           /\ calls[n].op.details.create_if_missing
           /\ Movable(calls[n])) =>
              LET e      == calls[n]
                  D      == e.op.details.destination
                  target == Join(D, PathName(e.op.source))
              IN  /\ ~e.raised
                  /\ D \in e.dirsAfter
                  /\ target \in DOMAIN e.after
                  /\ e.after[target].content = e.before[e.op.source].content
                  /\ e.op.source \notin DOMAIN e.after

\* C16: when a move Operation carries a tag and its relocation succeeds, on a
\* platform with tagging the file at its new location carries the tag once
\* the operation has completed.
C16_TagFollowsMove ==
    \A n \in 1..Len(calls) :
        (/\ calls[n].op.operation_type = "move"
         /\ calls[n].op.details.tag # <<>>
         /\ ~calls[n].raised
         /\ is_macos
         /\ TagList(calls[n].op.details.tag[1].color,
                    calls[n].op.details.tag[1].label) # <<>>) =>
            /\ FinalDestination(calls[n]) \in DOMAIN calls[n].after
            /\ calls[n].after[FinalDestination(calls[n])].tags
                  = TagList(calls[n].op.details.tag[1].color,
                            calls[n].op.details.tag[1].label)

\* the tagger cannot apply the tag of dispatch e: no tagging on the platform,
\* no file, or neither a known colour nor a label
TagFails(e) ==
    \/ ~is_macos
    \/ e.op.source \notin DOMAIN e.before
    \/ TagList(e.op.details.color, e.op.details.label) = <<>>

\* a deletion of dispatch e failed: the group was to be thinned by removal,
\* no exception stopped it, and two of its files are still there
DeletionFails(e) ==
    /\ ~DictGet(e.op.details.action, "tag_duplicates", FALSE)
    /\ e.error \notin {"FileNotFoundError"}
    /\ Cardinality(Range(e.op.details.duplicates) \cap DOMAIN e.after) >= 2

\* C17: whenever the tagger fails to apply the tag of a tag Operation, or a
\* deletion fails inside a duplicate Operation, the Operation ends with
\* succeeded = false and an error message.
C17_FailuresAreCaptured ==
    \A n \in 1..Len(calls) :
        (\/ calls[n].op.operation_type = "tag" /\ TagFails(calls[n])
         \/ calls[n].op.operation_type = "duplicate" /\ DeletionFails(calls[n])) =>
            /\ calls[n].raised
            /\ calls[n].error # NoError

\* C18: Mover.move raises FileNotFoundError when the source does not exist,
\* and FileExistsError when the final destination file already exists, the
\* existing file then being left as it was and the source staying in place.
C18_MoveRefusesToOverwrite ==
    \A n \in 1..Len(calls) :
        (/\ calls[n].op.operation_type = "move"
         /\ calls[n].op.details.destination \in calls[n].dirsAfter) =>
            LET e == calls[n]
            IN  /\ e.op.source \notin DOMAIN e.before => e.error = "FileNotFoundError"
                /\ (/\ e.op.source \in DOMAIN e.before
                    /\ FinalDestination(e) \in DOMAIN e.before
                    /\ FinalDestination(e) # e.op.source) =>
                       /\ e.error = "FileExistsError"
                       /\ e.after[FinalDestination(e)] = e.before[FinalDestination(e)]
                       /\ e.op.source \in DOMAIN e.after

---------------------------------------------------------------------------
(* Renamer.rename called on its own, on files of ~/Desktop. *)

NameVacation == <<"v","a","c","a","t","i","o","n",".","p","n","g">>
NameImgVacation == <<"I","M","G","-">> \o NameVacation
NameDashes == <<"a","-","-","b",".","t","x","t">>
NameDash == <<"a","-","b",".","t","x","t">>

RenamePlaces ==
    {Join(DesktopDir, NameVacation), Join(DesktopDir, NameImgVacation),
     Join(DesktopDir, NameDashes), Join(DesktopDir, NameDash)}

\* what each place may hold when rename is called
RenameOptions(p) ==
    IF p = Join(DesktopDir, NameVacation)
    THEN {Absent, File(ContentX, 1), [File(ContentX, 1) EXCEPT !.locked = TRUE]}
    ELSE IF p = Join(DesktopDir, NameDashes) THEN {Absent, File(ContentX, 1)}
    ELSE {Absent, File(ContentY, 2)}

\* the disk rename works on: what f puts at the places of ~/Desktop
RenameDisk(f) == [p \in {q \in RenamePlaces : f[q] # Absent} |-> f[p]]

InitRenamer ==
    /\ dirs = {Home, DownloadsDir, DocumentsDir, DesktopDir}
    /\ dirRev = FALSE
    /\ is_macos = FALSE
    /\ dry_run = FALSE
    /\ ruleFiles = NoRuleFiles
    /\ operations = <<>>
    /\ results = <<>>
    /\ nextId = 1
    /\ clock = 0
    /\ last = "init"
    /\ ret = <<>>
    /\ callNo = 0
    /\ calls = <<>>
    /\ lastCalls = <<>>
    /\ planHist = <<>>
    /\ dupIn = <<>>
    /\ dupOut = <<>>
    /\ dupRun = <<>>
    /\ callResult = <<>>
    /\ \E f \in [RenamePlaces -> {Absent, File(ContentX, 1), File(ContentY, 2),
                                  [File(ContentX, 1) EXCEPT !.locked = TRUE]}] :
          /\ \A p \in RenamePlaces : f[p] \in RenameOptions(p)
          /\ files = RenameDisk(f)
    /\ \E file_path \in {Join(DesktopDir, NameVacation), Join(DesktopDir, NameDashes)},
          replace \in {<<>>, <<"r">>},
          prefix \in {<<>>, <<"I","M","G">>, <<"-">>},
          suffix \in {<<>>, <<"v">>},
          separator \in {<<"-">>, <<"_">>, <<>>, <<"-","_">>} :
          callArgs = <<[fn |-> "rename", file_path |-> file_path,
                        replace |-> replace, prefix |-> prefix,
                        suffix |-> suffix, separator |-> separator]>>

\* the disk and the result after a call of rename that left r
Renamed(a, before, r) ==
    /\ files' = r.fs
    /\ callResult' = <<[error |-> r.error,
                        value |-> IF r.error = NoError
                                  THEN NewPath(a.file_path, a.replace, a.prefix,
                                               a.suffix, a.separator)
                                  ELSE <<>>,
                        before |-> before]>>

\* renamer.rename(file_path, replace, prefix, suffix, separator)
Rename ==
    /\ callResult = <<>>
    /\ callArgs[1].fn = "rename"
    /\ Renamed(callArgs[1], Snapshot(files),
               Renamer_rename(files, dirs, callArgs[1].file_path,
                              callArgs[1].replace, callArgs[1].prefix,
                              callArgs[1].suffix, callArgs[1].separator))
    /\ UNCHANGED <<dirs, dirRev, is_macos, dry_run, ruleFiles, callArgs>>
    /\ UNCHANGED runnerVars
    /\ UNCHANGED dedupVars

NextRenamer == Rename

SpecRenamer == InitRenamer /\ [][NextRenamer]_vars

---------------------------------------------------------------------------
(* Properties of the Renamer. *)

\* prefix, separator, stem, separator, suffix, absent parts left out
JoinedParts(prefix, stem, suffix, sep) ==
    (IF prefix # <<>> THEN prefix \o sep ELSE <<>>) \o stem
        \o (IF suffix # <<>> THEN sep \o suffix ELSE <<>>)

\* s with every run of the separator made one separator
RECURSIVE CollapseRuns(_, _)
CollapseRuns(s, sep) ==
    IF sep = <<>> \/ s = <<>> THEN s
    ELSE IF StartsWith(s, sep \o sep)
    THEN CollapseRuns(SubSeq(s, Len(sep) + 1, Len(s)), sep)
    ELSE <<Head(s)>> \o CollapseRuns(Tail(s), sep)

\* s without the separators it begins with
RECURSIVE TrimLeft(_, _)
TrimLeft(s, sep) ==
    IF sep # <<>> /\ StartsWith(s, sep)
    THEN TrimLeft(SubSeq(s, Len(sep) + 1, Len(s)), sep) ELSE s

\* s without the separators it ends with
RECURSIVE TrimRight(_, _)
TrimRight(s, sep) ==
    IF sep # <<>> /\ EndsWith(s, sep)
    THEN TrimRight(SubSeq(s, 1, Len(s) - Len(sep)), sep) ELSE s

\* the name C20 derives for the file called name
DerivedName(name, prefix, suffix, sep) ==
    TrimRight(TrimLeft(CollapseRuns(JoinedParts(prefix, NameStem(name), suffix, sep),
                                    sep), sep), sep)
        \o NameSuffix(name)

\* C20: without replace, Renamer.rename names the file prefix + separator +
\* stem + separator + suffix (absent parts left out), runs of the separator
\* made one and separators at both ends cut off, then the unchanged
\* extension; when that is the name the file has, the disk is not touched.
C20_DerivedName ==
    (/\ Called("rename")
     /\ callArgs[1].replace = <<>>
     /\ callArgs[1].file_path \in DOMAIN callResult[1].before
     /\ \A p \in DOMAIN callResult[1].before : ~callResult[1].before[p].locked) =>
        LET a      == callArgs[1]
            before == callResult[1].before
            target == Join(PathParent(a.file_path),
                           DerivedName(PathName(a.file_path), a.prefix, a.suffix,
                                       a.separator))
        IN  /\ callResult[1].error = NoError
            /\ callResult[1].value = target
            /\ target = a.file_path => files = before
            /\ target # a.file_path =>
                  /\ DOMAIN files = (DOMAIN before \ {a.file_path}) \cup {target}
                  /\ files[target] = before[a.file_path]
                  /\ \A p \in DOMAIN files : p # target => files[p] = before[p]

---------------------------------------------------------------------------
(* Properties of whole plans. *)

\* the duplicate rule called name looks at content
ContentRule(name) ==
    \E i \in 1..Len(ruleFiles.duplicate) :
        /\ ruleFiles.duplicate[i].name = name
        /\ ruleFiles.duplicate[i].check_by = "content"

\* the content the files of a planned group had when the plan was made
GroupContent(plan, group) == plan.files[group[1]].content

\* C21: after execute() has run a plan, the content of every group planned
\* by a content duplicate rule is still held by a file on disk, whatever
\* rules, check_by modes and keep policies made the plan.
C21_NoContentLost ==
    (last = "execute" /\ ~dry_run /\ planHist # <<>>) =>
        LET plan == planHist[Len(planHist)]
        IN  \A i \in 1..Len(plan.operations) :
                (/\ plan.operations[i].operation_type = "duplicate"
                 /\ ContentRule(plan.operations[i].rule_name)) =>
                    \E p \in DOMAIN files :
                        files[p].content =
                            GroupContent(plan, plan.operations[i].details.duplicates)

---------------------------------------------------------------------------
(* The Runner on disks where rename rules derive names that are taken. *)

DesktopNA    == Join(DesktopDir, <<"N","-">> \o NameATxt)
DesktopDashA == Join(DesktopDir, <<"-">> \o NameATxt)

RenameStartPlaces == {DesktopA, DesktopNA, DesktopDashA, DownloadsA}

\* what each of these places may hold when the run starts
RenameStartOptions(p) ==
    IF p = DesktopA
    THEN {Absent, File(ContentX, 1), [File(ContentX, 1) EXCEPT !.locked = TRUE]}
    ELSE IF p = DesktopNA
    THEN {Absent, File(ContentY, 2), [File(ContentY, 2) EXCEPT !.locked = TRUE]}
    ELSE IF p = DesktopDashA THEN {Absent, File(ContentY, 3)}
    ELSE {Absent, File(ContentX, 2)}

RenameRuleFiles ==
    { [move |-> <<>>, rename |-> <<RenamePrefix>>, tag |-> <<>>, duplicate |-> <<>>],
      [move |-> <<MoveTxt>>, rename |-> <<RenamePrefix, RenameSuffix>>,
       tag |-> <<>>, duplicate |-> <<>>] }

\* Runner.__init__ on such a disk
InitRenames ==
    /\ \E f \in [RenameStartPlaces -> {Absent, File(ContentX, 1), File(ContentX, 2),
                                       File(ContentY, 2), File(ContentY, 3),
                                       [File(ContentX, 1) EXCEPT !.locked = TRUE],
                                       [File(ContentY, 2) EXCEPT !.locked = TRUE]}] :
          /\ \A p \in RenameStartPlaces : f[p] \in RenameStartOptions(p)
          /\ files = [p \in {q \in RenameStartPlaces : f[q] # Absent} |-> f[p]]
    /\ dirs = DirsOf(files)
    /\ dirRev \in BOOLEAN
    /\ is_macos = FALSE
    /\ dry_run \in BOOLEAN
    /\ ruleFiles \in RenameRuleFiles
    /\ operations = <<>>
    /\ results = <<>>
    /\ nextId = 1
    /\ clock = 0
    /\ last = "init"
    /\ ret = <<>>
    /\ callNo = 0
    /\ calls = <<>>
    /\ lastCalls = <<>>
    /\ planHist = <<>>
    /\ dupIn = <<>>
    /\ dupOut = <<>>
    /\ dupRun = <<>>
    /\ callArgs = <<>>
    /\ callResult = <<>>

SpecRenames == InitRenames /\ [][Next]_vars

\* C22: a rename operation never destroys a file: whether or not the name
\* it derives is taken, by a file that was there or by a file renamed
\* before it, as many files are on disk after the operation as before it.
C22_RenameKeepsEveryFile ==
    \A i \in 1..Len(calls) :
        calls[i].op.operation_type = "rename" =>
            Cardinality(DOMAIN calls[i].after) = Cardinality(DOMAIN calls[i].before)

---------------------------------------------------------------------------
(* The Runner on disks where a regular file stands at ~/Documents/PDFs, the
   directory a move rule creates. *)

BlockedStartPlaces == {DownloadsA, DownloadsB, DocumentsA, PDFsDir}

\* what each of these places may hold when the run starts
BlockedStartOptions(p) ==
    IF p = DownloadsA THEN {Absent, File(ContentX, 1), File(ContentY, 3)}
    ELSE IF p = DownloadsB
    THEN {Absent, File(ContentX, 3), [File(ContentX, 3) EXCEPT !.locked = TRUE]}
    ELSE IF p = DocumentsA THEN {Absent, File(ContentX, 2)}
    ELSE {Absent, File(ContentX, 1), File(ContentY, 1)}

BlockedRuleFiles ==
    { [move |-> <<MovePdf>>, rename |-> <<>>, tag |-> <<>>,
       duplicate |-> <<DupContent>>],
      [move |-> <<MovePdf, MoveTxt>>, rename |-> <<RenameSuffix>>, tag |-> <<>>,
       duplicate |-> <<DupFirst>>] }

\* Runner.__init__ on such a disk
InitBlocked ==
    /\ \E f \in [BlockedStartPlaces -> {Absent, File(ContentX, 1), File(ContentX, 2),
                                        File(ContentX, 3), File(ContentY, 1),
                                        File(ContentY, 3),
                                        [File(ContentX, 3) EXCEPT !.locked = TRUE]}] :
          /\ \A p \in BlockedStartPlaces : f[p] \in BlockedStartOptions(p)
          /\ files = [p \in {q \in BlockedStartPlaces : f[q] # Absent} |-> f[p]]
    /\ dirs = DirsOf(files)
    /\ dirRev \in BOOLEAN
    /\ is_macos \in BOOLEAN
    /\ dry_run \in BOOLEAN
    /\ ruleFiles \in BlockedRuleFiles
    /\ operations = <<>>
    /\ results = <<>>
    /\ nextId = 1
    /\ clock = 0
    /\ last = "init"
    /\ ret = <<>>
    /\ callNo = 0
    /\ calls = <<>>
    /\ lastCalls = <<>>
    /\ planHist = <<>>
    /\ dupIn = <<>>
    /\ dupOut = <<>>
    /\ dupRun = <<>>
    /\ callArgs = <<>>
    /\ callResult = <<>>

SpecBlocked == InitBlocked /\ [][Next]_vars

\* C23: whatever scan_and_plan() and execute() calls were made, every
\* Operation of the plan that succeeded was executed and holds no error,
\* every Operation that was executed without success holds an error, and
\* just after scan_and_plan() no Operation is executed, succeeded or holds
\* an error.
C23_ExecutionStateConsistent ==
    /\ \A i \in 1..Len(operations) :
          /\ operations[i].success => operations[i].executed
          /\ operations[i].success => operations[i].error = NoError
          /\ (operations[i].executed /\ ~operations[i].success) =>
                operations[i].error # NoError
    /\ last = "plan" =>
          \A i \in 1..Len(operations) :
              /\ ~operations[i].executed
              /\ ~operations[i].success
              /\ operations[i].error = NoError

\* the dispatch lastCalls[j] found its source taken away by an earlier
\* dispatch of the same execute()
Stale(j) ==
    /\ lastCalls[j].op.source \notin DOMAIN lastCalls[j].before
    /\ \E i \in 1..(j - 1) :
          /\ lastCalls[j].op.source \in DOMAIN lastCalls[i].before
          /\ lastCalls[j].op.source \notin DOMAIN lastCalls[i].after

\* C24: an Operation whose source file an earlier operation of the plan has
\* moved, renamed or deleted does not end as a success, whatever its kind,
\* and leaves the files and directories on disk as they were.
C24_StaleSourceNeverSucceeds ==
    \A j \in 1..Len(lastCalls) :
        Stale(j) =>
            /\ lastCalls[j].raised
            /\ lastCalls[j].after = lastCalls[j].before
            /\ lastCalls[j].dirsAfter = lastCalls[j].dirsBefore

=============================================================================
